---------------------------- MODULE Spec2Model ----------------------------
(***************************************************************************)
(* A model of the SEC filing retrieval-and-extraction pipeline of          *)
(* app/tools/sec_search.py: the identifier resolver, the document fetcher  *)
(* with its disk cache and retry loop, and the sec_search orchestrator.    *)
(*                                                                         *)
(* Text is modelled as a sequence of one-character strings, so that the    *)
(* regular expressions of clean_company_name are computed character by     *)
(* character.  Python's None is the record None, a present value v is      *)
(* Some(v).                                                                *)
(***************************************************************************)
EXTENDS Integers, Sequences, FiniteSets, TLC

None == [some |-> FALSE]
Some(v) == [some |-> TRUE, val |-> v]

Min(S) == CHOOSE x \in S : \A y \in S : x <= y

(***************************************************************************)
(* Characters.                                                             *)
(***************************************************************************)
LowerLetters ==
  <<"a","b","c","d","e","f","g","h","i","j","k","l","m",
    "n","o","p","q","r","s","t","u","v","w","x","y","z">>

UpperLetters ==
  <<"A","B","C","D","E","F","G","H","I","J","K","L","M",
    "N","O","P","Q","R","S","T","U","V","W","X","Y","Z">>

Digits == {"0","1","2","3","4","5","6","7","8","9"}

Range(f) == {f[i] : i \in DOMAIN f}

IndexOf(f, c) == CHOOSE i \in DOMAIN f : f[i] = c

\* str.upper() / str.lower() on one character
UpperChar(c) == IF c \in Range(LowerLetters) THEN UpperLetters[IndexOf(LowerLetters, c)] ELSE c

LowerChar(c) == IF c \in Range(UpperLetters) THEN LowerLetters[IndexOf(UpperLetters, c)] ELSE c

StrUpper(s) == [i \in 1..Len(s) |-> UpperChar(s[i])]

StrLower(s) == [i \in 1..Len(s) |-> LowerChar(s[i])]

\* \w of the re module
IsWordChar(c) == c \in Range(LowerLetters) \cup Range(UpperLetters) \cup Digits \cup {"_"}

\* \s of the re module, and what str.strip() removes
SpaceChars == {" ", "\t", "\n", "\r", "\f"}

IsSpaceChar(c) == c \in SpaceChars

RECURSIVE LStrip(_)
LStrip(s) == IF s # <<>> /\ IsSpaceChar(Head(s)) THEN LStrip(Tail(s)) ELSE s

RECURSIVE RStrip(_)
RStrip(s) ==
  IF s # <<>> /\ IsSpaceChar(s[Len(s)]) THEN RStrip(SubSeq(s, 1, Len(s) - 1)) ELSE s

\* str.strip()
StrStrip(s) == RStrip(LStrip(s))

(***************************************************************************)
(* clean_company_name                                                      *)
(***************************************************************************)
\* the alternatives of the legal-suffix pattern, in the order of the pattern
LegalSuffixes ==
  << <<"C","O","R","P","O","R","A","T","I","O","N">>,
     <<"C","O","R","P">>,
     <<"I","N","C">>,
     <<"L","L","C">>,
     <<"L","L","P">>,
     <<"L","T","D">>,
     <<"L","I","M","I","T","E","D">>,
     <<"C","O">>,
     <<"C","O","M","P","A","N","Y">>,
     <<"P","L","C">>,
     <<"A","G">>,
     <<"S","A">> >>

\* the character class of the punctuation pattern
PunctChars == {".", ",", "&", "'", "-", "<emdash>", "<endash>", "/", "\\", "(", ")"}

\* \b at position i (between s[i-1] and s[i])
WordBoundary(s, i) ==
  (i > 1 /\ i - 1 <= Len(s) /\ IsWordChar(s[i - 1])) # (i >= 1 /\ i <= Len(s) /\ IsWordChar(s[i]))

HasAt(s, i, t) ==
  /\ i + Len(t) - 1 <= Len(s)
  /\ \A k \in 1..Len(t) : s[i + k - 1] = t[k]

\* \b(t)\b matches at position i
TokenAt(s, i, t) == WordBoundary(s, i) /\ HasAt(s, i, t) /\ WordBoundary(s, i + Len(t))

\* length of the match of \b(CORPORATION|...|SA)\b\.? at position i, 0 when none
SuffixMatchLen(s, i) ==
  LET hits == {k \in 1..Len(LegalSuffixes) : TokenAt(s, i, LegalSuffixes[k])}
  IN  IF hits = {} THEN 0
      ELSE LET e == i + Len(LegalSuffixes[Min(hits)])
           IN  (e - i) + (IF e <= Len(s) /\ s[e] = "." THEN 1 ELSE 0)

RECURSIVE StripSuffixesFrom(_, _)
StripSuffixesFrom(s, i) ==
  IF i > Len(s) THEN <<>>
  ELSE IF SuffixMatchLen(s, i) > 0 THEN StripSuffixesFrom(s, i + SuffixMatchLen(s, i))
  ELSE <<s[i]>> \o StripSuffixesFrom(s, i + 1)

\* re.sub(r"\b(CORPORATION|...|SA)\b\.?", "", s)
StripSuffixes(s) == StripSuffixesFrom(s, 1)

\* first position >= i whose character is not in the class
RECURSIVE SkipClass(_, _, _)
SkipClass(s, i, C) ==
  IF i <= Len(s) /\ s[i] \in C THEN SkipClass(s, i + 1, C) ELSE i

RECURSIVE CollapseFrom(_, _, _)
CollapseFrom(s, i, C) ==
  IF i > Len(s) THEN <<>>
  ELSE IF s[i] \in C THEN <<" ">> \o CollapseFrom(s, SkipClass(s, i, C), C)
  ELSE <<s[i]>> \o CollapseFrom(s, i + 1, C)

\* re.sub(r"[.,&''\-—–/\\()]+", " ", s)
PunctToSpace(s) == CollapseFrom(s, 1, PunctChars)

\* re.sub(r"\s+", " ", s)
CollapseSpaces(s) == CollapseFrom(s, 1, SpaceChars)

THE == <<"T","H","E">>

\* re.sub(r"^THE\s+", "", s)
StripLeadingThe(s) ==
  IF HasAt(s, 1, THE) /\ Len(s) >= 4 /\ IsSpaceChar(s[4])
  THEN SubSeq(s, SkipClass(s, 4, SpaceChars), Len(s))
  ELSE s

\* start of the whitespace run that ends just before position i
RECURSIVE RunStart(_, _)
RunStart(s, i) == IF i > 1 /\ IsSpaceChar(s[i - 1]) THEN RunStart(s, i - 1) ELSE i

\* re.sub(r"\s+THE$", "", s)
StripTrailingThe(s) ==
  LET p == Len(s) - 2
  IN  IF p >= 2 /\ HasAt(s, p, THE) /\ IsSpaceChar(s[p - 1])
      THEN SubSeq(s, 1, RunStart(s, p) - 1)
      ELSE s

clean_company_name(name) ==
  StrStrip(StrLower(StripTrailingThe(StripLeadingThe(
    StrStrip(CollapseSpaces(PunctToSpace(StripSuffixes(StrUpper(name)))))))))

(***************************************************************************)
(* Registry ids.                                                           *)
(***************************************************************************)
DigitSeq == <<"0","1","2","3","4","5","6","7","8","9">>

\* str(n) for a natural number n
RECURSIVE NatToStr(_)
NatToStr(n) == IF n < 10 THEN <<DigitSeq[n + 1]>> ELSE NatToStr(n \div 10) \o <<DigitSeq[(n % 10) + 1]>>

\* str(n) for an int n
IntToStr(n) == IF n < 0 THEN <<"-">> \o NatToStr(0 - n) ELSE NatToStr(n)

RECURSIVE Zeros(_)
Zeros(k) == IF k <= 0 THEN <<>> ELSE <<"0">> \o Zeros(k - 1)

\* str.zfill(width): zeros go after a leading sign
ZFill(s, width) ==
  IF Len(s) >= width THEN s
  ELSE IF s # <<>> /\ Head(s) \in {"+", "-"}
       THEN <<Head(s)>> \o Zeros(width - Len(s)) \o Tail(s)
       ELSE Zeros(width - Len(s)) \o s

RECURSIVE DigitsToNat(_)
DigitsToNat(s) ==
  IF s = <<>> THEN 0 ELSE 10 * DigitsToNat(SubSeq(s, 1, Len(s) - 1)) + (IndexOf(DigitSeq, s[Len(s)]) - 1)

AllDigits(s) == s # <<>> /\ \A i \in 1..Len(s) : s[i] \in Digits

\* int(cik_raw): Some(n), or None when it raises ValueError or TypeError.
\* cik_raw is a JSON value: a number, a string or null.
PyInt(raw) ==
  CASE raw.kind = "int" -> Some(raw.n)
    [] raw.kind = "str" ->
         LET body == StrStrip(raw.s)
             neg == body # <<>> /\ Head(body) = "-"
             mag == IF body # <<>> /\ Head(body) \in {"+", "-"} THEN Tail(body) ELSE body
         IN  IF AllDigits(mag) THEN Some(IF neg THEN 0 - DigitsToNat(mag) ELSE DigitsToNat(mag))
             ELSE None
    [] OTHER -> None

JInt(n) == [kind |-> "int", n |-> n]

JStr(s) == [kind |-> "str", s |-> s]

JNull == [kind |-> "null"]

\* str(x) of a JSON string or null
PyStr(o) == IF o.some THEN o.val ELSE <<"N","o","n","e">>

\* `x.strip() if x else ""`
StripOrEmpty(o) == IF o.some /\ o.val # <<>> THEN StrStrip(o.val) ELSE <<>>

\* Python truthiness of an optional string
Truthy(o) == o.some /\ o.val # <<>>

CikWidth == 10

(***************************************************************************)
(* get_cik_from_ticker_or_name                                             *)
(***************************************************************************)
\* the loop over the rows of company_tickers_exchange.json, from row i on
RECURSIVE ScanRows(_, _, _, _)
ScanRows(rows, i, company_clean, ticker_upper) ==
  IF i > Len(rows) THEN <<None, None>>
  ELSE LET row == rows[i]
       IN  IF Len(row) < 4 THEN ScanRows(rows, i + 1, company_clean, ticker_upper)
           ELSE LET name == clean_company_name(StrLower(PyStr(row[2])))
                    ticker == StrUpper(StrStrip(PyStr(row[3])))
                    n == PyInt(row[1])
                IN  IF ~n.some THEN ScanRows(rows, i + 1, company_clean, ticker_upper)
                    ELSE LET cik_str == ZFill(IntToStr(n.val), CikWidth)
                         IN  IF ticker = ticker_upper THEN <<Some(cik_str), Some(ticker)>>
                             ELSE IF company_clean = clean_company_name(name)
                                  THEN <<Some(cik_str), Some(ticker)>>
                                  ELSE ScanRows(rows, i + 1, company_clean, ticker_upper)

\* resp is the answer of the registry endpoint: [kind |-> "ok", rows |-> ...],
\* [kind |-> "status"] (a status other than 200) or [kind |-> "error"] (an
\* exception of the request or of the JSON decoding).
\* The result: ret = (cik, ticker), requested = the endpoint was requested.
get_cik_from_ticker_or_name(company_name, ticker_symbol, resp) ==
  LET wcompany_name == StripOrEmpty(company_name)
      wticker_symbol == StripOrEmpty(ticker_symbol)
  IN  IF wcompany_name = <<>> /\ wticker_symbol = <<>>
      THEN [ret |-> <<None, None>>, requested |-> FALSE]
      ELSE IF resp.kind # "ok"
      THEN [ret |-> <<None, None>>, requested |-> TRUE]
      ELSE [ret |-> ScanRows(resp.rows, 1, clean_company_name(wcompany_name),
                             StrUpper(wticker_symbol)),
            requested |-> TRUE]

(***************************************************************************)
(* get_cik_from_archive                                                    *)
(***************************************************************************)
\* index of the first c in s, 0 when c is not in s
FindChar(s, c) == IF \E i \in 1..Len(s) : s[i] = c THEN Min({i \in 1..Len(s) : s[i] = c}) ELSE 0

\* s.split(c, 1)[0]
BeforeFirst(s, c) == IF FindChar(s, c) = 0 THEN s ELSE SubSeq(s, 1, FindChar(s, c) - 1)

\* s.split(c, 1)[1], for s containing c
AfterFirst(s, c) == SubSeq(s, FindChar(s, c) + 1, Len(s))

\* the cik that a line of cik-lookup-data.txt yields
LineCik(line) == BeforeFirst(ZFill(StrStrip(AfterFirst(line, ":")), CikWidth), ":")

\* the loop over the lines of the archive, from line i on
RECURSIVE ScanLines(_, _, _)
ScanLines(lines, i, search_lower) ==
  IF i > Len(lines) THEN None
  ELSE IF FindChar(lines[i], ":") = 0 THEN ScanLines(lines, i + 1, search_lower)
  ELSE IF LineCik(lines[i]) # Zeros(CikWidth)
          /\ clean_company_name(BeforeFirst(lines[i], ":")) = search_lower
       THEN Some(LineCik(lines[i]))
       ELSE ScanLines(lines, i + 1, search_lower)

\* What happens to a file that write_text is called on: "ok" stores the text,
\* "denied" fails before the file is opened (the file is left as it was),
\* "torn" fails after the file was opened for writing (an empty file is left).
WriteOutcomes == {"ok", "denied", "torn"}

WriteFile(old, content, empty, outcome) ==
  CASE outcome = "ok" -> Some(content)
    [] outcome = "torn" -> Some(empty)
    [] OTHER -> old

\* cache_file is the content of data/sec/cik-lookup-data.txt (None: no file);
\* env gives the outcomes of the environment: mkdir_ok, read_ok, write, and
\* resp, the answer of the archive endpoint ([kind |-> "ok", lines |-> ...],
\* [kind |-> "status"] or [kind |-> "error"]).
\* The result: kind = "raise" when an exception leaves the function, else
\* "ret" with ret the returned value; requested = the archive was requested;
\* cache_file = the file after the call.
get_cik_from_archive(company_name, use_disk_cache, has_filename, cache_file, env) ==
  IF ~company_name.some
  THEN [kind |-> "raise", ret |-> None, requested |-> FALSE, cache_file |-> cache_file]
  ELSE
  LET search_lower == clean_company_name(StrStrip(company_name.val))
      cacheOn == use_disk_cache /\ has_filename
      Ret(r, req, cf) == [kind |-> "ret", ret |-> r, requested |-> req, cache_file |-> cf]
  IN  IF cacheOn /\ ~env.mkdir_ok THEN Ret(None, FALSE, cache_file)
      ELSE IF cacheOn /\ cache_file.some /\ ~env.read_ok THEN Ret(Some(<<>>), FALSE, cache_file)
      ELSE IF cacheOn /\ cache_file.some
           THEN Ret(ScanLines(cache_file.val, 1, search_lower), FALSE, cache_file)
      ELSE IF env.resp.kind # "ok" THEN Ret(None, TRUE, cache_file)
      ELSE Ret(ScanLines(env.resp.lines, 1, search_lower), TRUE,
               IF cacheOn THEN WriteFile(cache_file, env.resp.lines, <<>>, env.write)
               ELSE cache_file)

(***************************************************************************)
(* Documents.  A text is modelled by whether it is the empty string, by    *)
(* the set of phrases it contains (what the patterns of the extractors     *)
(* look for), by the phrases among them that a section pattern captures    *)
(* (those from the heading of the section on, within the reach of the      *)
(* pattern) and by its number of characters; an HTML page by its visible   *)
(* text and by the link to a press-release exhibit it holds ("none", or    *)
(* the form of the href).                                                  *)
(***************************************************************************)
\* a text that holds a phrase holds the shorter phrases inside it
Inside(phrase) ==
  CASE phrase \in {"guidance 5%", "guidance 1.2.3%",
                   "revenue guidance of $5.0 billion to $5.2 billion",
                   "margin guidance of 10.8% to 10.9%",
                   "EPS guidance of $2.50 to $2.60"} -> {phrase, "guidance"}
    [] phrase = "ARPPU $17.81" -> {phrase, "ARPPU"}
    [] phrase = "gross margin 40%" -> {phrase, "gross margin"}
    [] OTHER -> {phrase}

\* a text of chars characters with the phrases, those of window captured by a
\* section pattern
TextOf(phrases, window, chars) ==
  [empty |-> FALSE, phrases |-> UNION {Inside(ph) : ph \in phrases},
   window |-> UNION {Inside(ph) : ph \in window}, chars |-> chars]

\* a short text whose sections hold all its phrases
Text(phrases) == TextOf(phrases, phrases, 100)

EmptyText == [empty |-> TRUE, phrases |-> {}, window |-> {}, chars |-> 0]

\* Python truthiness of a str
NonEmpty(text) == ~text.empty

\* Python truthiness of an Optional[str]
TruthyText(o) == o.some /\ NonEmpty(o.val)

\* a + "\n\n" + b
Concat(a, b) ==
  [empty |-> FALSE, phrases |-> a.phrases \cup b.phrases,
   window |-> a.window \cup b.window, chars |-> a.chars + 2 + b.chars]

Html(text, href) == [text |-> text, href |-> href]

\* soup.get_text(...) with the blank lines dropped
CleanHtml(html) == html.text

(***************************************************************************)
(* extract_all_sections: the pattern table of the form, each pattern       *)
(* given by the phrase it looks for.                                       *)
(***************************************************************************)
Has(s, t) == \E i \in 1..(Len(s) - Len(t) + 1) : HasAt(s, i, t)

F_8K == <<"8","-","K">>

F_10K == <<"1","0","-","K">>

F_DEF14A == <<"D","E","F"," ","1","4","A">>

F_DEFA14A == <<"D","E","F","A","1","4","A">>

SectionPatterns(form) ==
  LET form_upper == StrUpper(form)
  IN  IF Has(form_upper, F_8K)
      THEN { <<"item_1_01", "Item 1.01">>, <<"item_2_01", "Item 2.01">>,
             <<"item_2_02", "Item 2.02">>, <<"item_5_02", "Item 5.02">>,
             <<"item_8_01", "Item 8.01">>, <<"ma_activity", "merger">>,
             <<"guidance_section", "guidance">>,
             <<"earnings_release", "EARNINGS RELEASE">>,
             <<"financial_outlook", "Financial Outlook">>,
             <<"board_changes", "director appointed">> }
      ELSE IF Has(form_upper, F_DEF14A) \/ Has(form_upper, F_DEFA14A)
      THEN { <<"board_nominees", "ELECTION OF DIRECTORS">>,
             <<"nominee_details", "Nominees for Election">>,
             <<"director_qualifications", "DIRECTOR QUALIFICATIONS">>,
             <<"proposal_1", "PROPOSAL 1">> }
      ELSE { <<"business", "Item 1. Business">>,
             <<"risk_factors", "Item 1A. Risk Factors">>,
             <<"mda", "Item 7. Management">>,
             <<"financial_statements", "Item 8. Financial Statements">>,
             <<"subscriber_metrics", "subscriber">>,
             <<"revenue_per_user", "ARPPU">>,
             <<"membership_table", "membership table">>,
             <<"quarterly_table", "First Quarter">>,
             <<"three_months_ended", "Three Months Ended">>,
             <<"margin_analysis", "gross margin">> }

\* the keys of the returned dict
extract_all_sections(text, form) ==
  {p[1] : p \in {q \in SectionPatterns(form) : q[2] \in text.phrases}}

(***************************************************************************)
(* extract_financial_data, extract_guidance_data, extract_board_nominees:  *)
(* raised = a ValueError leaves the function, keys = the keys of the       *)
(* returned dict (the names of the returned list), facts = the keys whose  *)
(* value is not empty.                                                     *)
(***************************************************************************)
MetricPatterns ==
  { <<"total_revenue", "Total revenues 100">>, <<"total_assets", "Total assets 100">>,
    <<"total_liabilities", "Total liabilities 100">>,
    <<"stockholders_equity", "Total stockholders equity 100">>,
    <<"net_income", "Net income 100">>,
    <<"operating_cash_flow", "Cash from operating activities 100">>,
    <<"paid_memberships", "paid memberships 280.6 million">>,
    <<"streaming_members", "streaming members 100">>,
    <<"average_memberships", "average memberships 100">>,
    <<"arppu", "ARPPU $17.81">>,
    <<"gross_margin_pct", "gross margin 40%">>,
    <<"operating_margin_pct", "operating margin 10%">>,
    <<"pretax_margin_pct", "pretax margin 12%">> }

\* phrases on which float() is called with a string that is not a number
BadFloatPhrases == {"total members 1.2.3 million", "pretax profit margin of 1.2.3%"}

extract_financial_data(text) ==
  IF text.phrases \cap BadFloatPhrases # {}
  THEN [raised |-> TRUE, keys |-> {}, facts |-> {}]
  ELSE LET found == {p[1] : p \in {q \in MetricPatterns : q[2] \in text.phrases}}
                      \cup (IF "pretax profit margin of 12.3%" \in text.phrases
                            THEN {"pretax_margin_data"} ELSE {})
                      \cup (IF "ARPPU $17.81" \in text.phrases THEN {"arppu_data"} ELSE {})
                      \cup (IF "paid memberships 280.6 million" \in text.phrases
                            THEN {"membership_data"} ELSE {})
       IN  [raised |-> FALSE, keys |-> found \cup {"arppu_data", "membership_data"},
            facts |-> found]

GuidancePatterns ==
  { <<"revenue_range", "revenue guidance of $5.0 billion to $5.2 billion">>,
    <<"margin_range", "margin guidance of 10.8% to 10.9%">>,
    <<"eps_range", "EPS guidance of $2.50 to $2.60">>,
    <<"periods", "fiscal 2025">> }

extract_guidance_data(text) ==
  LET found == {p[1] : p \in {q \in GuidancePatterns : q[2] \in text.phrases}}
  IN  IF found # {} THEN [raised |-> FALSE, keys |-> found \cup {"confidence", "source"}]
      ELSE IF "guidance 1.2.3%" \in text.phrases THEN [raised |-> TRUE, keys |-> {}]
      ELSE IF "guidance 5%" \in text.phrases
           THEN [raised |-> FALSE, keys |-> {"guidance_values", "confidence", "source"}]
           ELSE [raised |-> FALSE, keys |-> {}]

extract_board_nominees(text) ==
  IF "Anthony Meeker   73" \in text.phrases THEN {"Anthony Meeker"} ELSE {}

(***************************************************************************)
(* fetch_filing_and_exhibit_html.  A call is followed from one HTTP        *)
(* request to the next: a FetchState is the call at its start, before a    *)
(* request or at its end.                                                  *)
(***************************************************************************)
MaxRetries == 3

RetryAfterDefault == 10

DotTxt == <<".","t","x","t">>

Ex991DotTxt == <<"_","e","x","9","9","1",".","t","x","t">>

\* s.replace('.txt', '_ex991.txt')
RECURSIVE ReplaceDotTxt(_)
ReplaceDotTxt(s) ==
  IF s = <<>> THEN <<>>
  ELSE IF HasAt(s, 1, DotTxt) THEN Ex991DotTxt \o ReplaceDotTxt(SubSeq(s, 5, Len(s)))
  ELSE <<Head(s)>> \o ReplaceDotTxt(Tail(s))

\* the cache file of the filing, and the cache file of its exhibit
FilingFile(cache_filename) == cache_filename

\* a fetch that keeps the exhibit in the file of the filing
ExhibitFileSame(cache_filename) == cache_filename

ExhibitFile(cache_filename) == ReplaceDotTxt(cache_filename)

CacheOn(args) == args.use_disk_cache /\ args.cache_filename.some

ReadFile(d, file, read_ok) == IF file \in DOMAIN d /\ read_ok THEN Some(d[file]) ELSE None

PutFile(d, file, content) == [f \in DOMAIN d \cup {file} |-> IF f = file THEN content ELSE d[f]]

\* write_text(content) on file: it succeeds or raises before the file is made
FetchWriteOutcomes == {"ok", "denied"}

WriteText(d, file, content, outcome) == IF outcome = "ok" THEN PutFile(d, file, content) ELSE d

\* What a call met and did.  read_*_ok: the read of the cache file did not
\* fail (TRUE when nothing was read); got_200: the primary document was
\* downloaded with status 200; write_*: the outcome of write_text ("none": not
\* called); answers: what the server answered to the requests of the primary
\* document, in order; requests: the HTTP requests of the call, in order.
NoObs ==
  [read_filing_ok |-> TRUE, read_exhibit_ok |-> TRUE, got_200 |-> FALSE,
   write_filing |-> "none", write_exhibit |-> "none", answers |-> <<>>, requests |-> <<>>]

\* pc: "idle" (no call yet), "request" (before a request of the primary
\* document), "exhibit" (before the request of the exhibit), "done", "raised";
\* disk: the cache files; attempt, exhibit, html: the locals attempt,
\* exhibit_text and the page of the primary document (0 and None outside the
\* loop); ret: the returned pair; waits: the arguments of asyncio.sleep.
FetchState(pc, args, d, attempt, exhibit, html, ret, waits, obs) ==
  [pc |-> pc, args |-> args, disk |-> d, attempt |-> attempt, exhibit |-> exhibit,
   html |-> html, ret |-> ret, waits |-> waits, obs |-> obs]

\* the call ends
Ended(st, pc, d, ret, waits, obs) == FetchState(pc, st.args, d, 0, None, None, ret, waits, obs)

\* the return of ("", None)
ReturnEmpty(st, waits, obs) ==
  Ended(st, "done", st.disk, Some([filing |-> EmptyText, exhibit |-> None]), waits, obs)

\* a test of the cached texts that asks for both of them
CacheHitBoth(cached_filing, cached_exhibit) == TruthyText(cached_filing) /\ TruthyText(cached_exhibit)

\* the test of the cached texts: the filing alone decides
CacheHit(cached_filing, cached_exhibit) == TruthyText(cached_filing)

\* the value of the Retry-After header as the code reads it:
\* int(response.headers.get('Retry-After', 10)); None when int() raises
RetryAfterSeconds(header) == IF header.some THEN PyInt(JStr(header.val)) ELSE Some(RetryAfterDefault)

\* steps 5 and 6: clean the filing, save both texts, return; ex is exhibit_text
FinishFetch(st, html, ex, obs, write_filing, write_exhibit) ==
  LET filing_text == CleanHtml(html)
      name == st.args.cache_filename.val
      d1 == WriteText(st.disk, FilingFile(name), filing_text, write_filing)
      exhibit_written == write_filing = "ok" /\ TruthyText(ex)
      d2 == IF exhibit_written THEN WriteText(d1, ExhibitFile(name), ex.val, write_exhibit) ELSE d1
      ret == Some([filing |-> filing_text, exhibit |-> ex])
  IN  IF CacheOn(st.args)
      THEN Ended(st, "done", d2, ret, st.waits,
                 [obs EXCEPT !.got_200 = TRUE,
                             !.write_filing = write_filing,
                             !.write_exhibit = IF exhibit_written THEN write_exhibit ELSE "none"])
      ELSE Ended(st, "done", st.disk, ret, st.waits, [obs EXCEPT !.got_200 = TRUE])

\* Step 1: the call and its look into the cache, with the given outcomes of
\* mkdir and of the reads.  cache_dir.mkdir(parents=True, exist_ok=True) raises
\* only when the directory does not exist and cannot be made.
FetchBegin(args, d, dir_exists, mkdir_ok, read_filing_ok, read_exhibit_ok) ==
  LET name == args.cache_filename.val
      cached_filing == IF CacheOn(args) THEN ReadFile(d, FilingFile(name), read_filing_ok) ELSE None
      cached_exhibit == IF CacheOn(args) THEN ReadFile(d, ExhibitFile(name), read_exhibit_ok) ELSE None
      obs == IF CacheOn(args)
             THEN [NoObs EXCEPT
                     !.read_filing_ok = read_filing_ok \/ FilingFile(name) \notin DOMAIN d,
                     !.read_exhibit_ok = read_exhibit_ok \/ ExhibitFile(name) \notin DOMAIN d]
             ELSE NoObs
      st == FetchState("request", args, d, 0, cached_exhibit, None, None, <<>>, obs)
  IN  IF CacheOn(args) /\ ~mkdir_ok /\ ~dir_exists THEN Ended(st, "raised", d, None, <<>>, NoObs)
      ELSE IF CacheHit(cached_filing, cached_exhibit)
      THEN Ended(st, "done", d,
                 Some([filing |-> cached_filing.val,
                       exhibit |-> IF TruthyText(cached_exhibit) THEN cached_exhibit ELSE None]),
                 <<>>, obs)
      ELSE st

(***************************************************************************)
(* What the servers may answer.                                            *)
(***************************************************************************)
Boilerplate == Text({})

Revenues == Text({"Total revenues 100"})

Members == Text({"total members 1.2.3 million"})

PressRelease == Text({"pretax profit margin of 12.3%"})

DocHtmlPool ==
  { Html(EmptyText, "none"), Html(Boilerplate, "none"), Html(Revenues, "none"),
    Html(Members, "none"), Html(Boilerplate, "relative"), Html(EmptyText, "absolute") }

ExhibitHtmlPool == { Html(EmptyText, "none"), Html(PressRelease, "none") }

\* Retry-After: absent, a number of seconds, an HTTP date
RetryAfterPool == { None, Some(<<"2">>), Some(<<"W","e","d",","," ","2","1"," ","O","c","t">>) }

DocResponses ==
  {[kind |-> "429", retry_after |-> h] : h \in RetryAfterPool}
    \cup {[kind |-> "ok", html |-> h] : h \in DocHtmlPool}
    \cup {[kind |-> "status"], [kind |-> "timeout"], [kind |-> "error"]}

ExhibitResponses ==
  {[kind |-> "ok", html |-> h] : h \in ExhibitHtmlPool} \cup {[kind |-> "status"], [kind |-> "error"]}

\* A URL: the endpoint it addresses ("tickers", "archive", "index", "doc",
\* "exhibit") and the cik, accession and document name put into it.
Url(to, cik, acc, doc) == [to |-> to, cik |-> cik, acc |-> acc, doc |-> doc]

\* the URL of the exhibit, as built from the href
ExhibitUrl(href, cik, accession_clean) ==
  CASE href = "absolute" -> Url("exhibit", None, None, None)
    [] href = "root" -> Url("exhibit", None, None, None)
    [] OTHER -> Url("exhibit", Some(cik), Some(accession_clean), None)

\* s.replace(c, "")
RECURSIVE RemoveChar(_, _)
RemoveChar(s, c) ==
  IF s = <<>> THEN <<>>
  ELSE IF Head(s) = c THEN RemoveChar(Tail(s), c)
  ELSE <<Head(s)>> \o RemoveChar(Tail(s), c)

\* what obs.answers keeps of an answer
Answer(resp) == IF resp.kind = "429" THEN resp ELSE [kind |-> resp.kind]

\* obs with a request of the primary document and its answer added
Answered(obs, url, resp) ==
  [obs EXCEPT !.answers = Append(@, Answer(resp)), !.requests = Append(@, url)]

\* the end of one pass of the retry loop by `continue`
NextAttempt(st, waits, obs) ==
  IF st.attempt + 1 >= MaxRetries
  THEN ReturnEmpty(st, waits, obs)
  ELSE [st EXCEPT !.attempt = st.attempt + 1, !.waits = waits, !.obs = obs]

\* step 2: one request of the primary document, answered resp, and what follows
FetchRequest(st, resp, write_filing) ==
  LET obs == Answered(st.obs, st.args.url, resp)
  IN  CASE resp.kind = "429" ->
             LET wait_time == RetryAfterSeconds(resp.retry_after)
             IN  IF wait_time.some
                 THEN NextAttempt(st, Append(st.waits, wait_time.val), obs)
                 ELSE ReturnEmpty(st, st.waits, obs)
        [] resp.kind = "timeout" ->
             NextAttempt(st, IF st.attempt < MaxRetries - 1
                             THEN Append(st.waits, 2 ^ st.attempt) ELSE st.waits, obs)
        [] resp.kind = "ok" ->
             IF resp.html.href # "none"
             THEN [st EXCEPT !.pc = "exhibit", !.html = Some(resp.html), !.obs = obs]
             ELSE FinishFetch(st, resp.html, st.exhibit, obs, write_filing, "none")
        [] OTHER -> ReturnEmpty(st, st.waits, obs)

\* steps 4 to 6: the request of the exhibit, answered resp, and what follows:
\* exhibit_text is the cleaned page, None after an exception, the text loaded
\* from the cache after a status other than 200
FetchExhibit(st, resp, write_filing, write_exhibit) ==
  FinishFetch(st, st.html.val,
              CASE resp.kind = "ok" -> Some(CleanHtml(resp.html))
                [] resp.kind = "error" -> None
                [] OTHER -> st.exhibit,
              [st.obs EXCEPT !.requests =
                 Append(@, ExhibitUrl(st.html.val.href, st.args.cik,
                                      RemoveChar(st.args.accession, "-")))],
              write_filing, write_exhibit)

\* the outcomes of write_text that matter to a call: none with the cache off
WriteChoices(args) == IF CacheOn(args) THEN FetchWriteOutcomes ELSE {"none"}

\* the states that one request leads to from st
FetchSteps(st) ==
  IF st.pc = "request"
  THEN UNION { { FetchRequest(st, resp, w) :
                   w \in IF resp.kind = "ok" THEN WriteChoices(st.args) ELSE {"none"} } :
               resp \in DocResponses }
  ELSE IF st.pc = "exhibit"
  THEN { FetchExhibit(st, x[1], x[2], x[3]) :
           x \in ExhibitResponses \X WriteChoices(st.args) \X WriteChoices(st.args) }
  ELSE {}

\* the ends that a call can come to from st
RECURSIVE FetchEnds(_)
FetchEnds(st) ==
  IF st.pc \in {"request", "exhibit"} THEN UNION { FetchEnds(n) : n \in FetchSteps(st) } ELSE {st}

\* the outcomes of mkdir and of the two reads that matter to a call
BeginChoices(args, d, dir_exists) ==
  IF ~CacheOn(args) THEN { <<TRUE, TRUE, TRUE>> }
  ELSE (IF dir_exists THEN {TRUE} ELSE BOOLEAN)
         \X (IF FilingFile(args.cache_filename.val) \in DOMAIN d THEN BOOLEAN ELSE {TRUE})
         \X (IF ExhibitFile(args.cache_filename.val) \in DOMAIN d THEN BOOLEAN ELSE {TRUE})

\* the ends of a call with the files d; dir_exists: data/sec exists
fetch_filing_and_exhibit_html(args, d, dir_exists) ==
  UNION { FetchEnds(FetchBegin(args, d, dir_exists, x[1], x[2], x[3])) :
            x \in BeginChoices(args, d, dir_exists) }

(***************************************************************************)
(* sec_search builds the URL and the cache file name of a filing.          *)
(***************************************************************************)
DocUrl(cik, accession, primary_document) ==
  Url("doc", Some(cik), Some(RemoveChar(accession, "-")), Some(primary_document))

\* f"CIK{cik}-{acc_clean}-{filing['primary_document']}.txt"
CacheFilename(cik, accession, primary_document) ==
  <<"C","I","K">> \o cik \o <<"-">> \o RemoveChar(accession, "-") \o <<"-">>
    \o primary_document \o DotTxt

FetchArgs(cik, accession, primary_document, use_disk_cache, with_cache_filename) ==
  [url |-> DocUrl(cik, accession, primary_document),
   cik |-> cik,
   accession |-> accession,
   use_disk_cache |-> use_disk_cache,
   cache_filename |-> IF with_cache_filename
                      THEN Some(CacheFilename(cik, accession, primary_document)) ELSE None]

(***************************************************************************)
(* State: the files, the log of the requests, and a caller that fetches    *)
(* one filing reference again and again, the log cleared before each call. *)
(***************************************************************************)
VARIABLES
  disk,         \* data/sec: cache file name -> cleaned text, for the filing and exhibit files that exist
  archive_file, \* data/sec/cik-lookup-data.txt: None, or Some of its lines
  netlog,       \* the HTTP requests sent since the log was cleared, in order
  fetch,        \* the FetchState of the caller's call (its field disk aside)
  f_calls       \* number of calls made

fetchVars == <<disk, netlog, fetch, f_calls>>

\* the directory data/sec exists for certain: it holds a file
CacheDirExists == DOMAIN disk # {} \/ archive_file.some

MaxCalls == 3

AppleCik == <<"0","0","0","0","3","2","0","1","9","3">>

Accession1 == <<"0","1","-","2","4","-","1">>

Document1 == <<"a",".","h","t","m">>

NoArgs == FetchArgs(<<>>, <<>>, <<>>, FALSE, FALSE)

NoFiles == [f \in {} |-> EmptyText]

\* the call is in state st
FetchBecomes(st) ==
  /\ fetch' = [st EXCEPT !.disk = NoFiles]
  /\ disk' = st.disk
  /\ netlog' = st.obs.requests

FetchNow == [fetch EXCEPT !.disk = disk]

FetchCall ==
  /\ fetch.pc \in {"idle", "done", "raised"}
  /\ f_calls < MaxCalls
  /\ f_calls' = f_calls + 1
  /\ \E use_disk_cache \in BOOLEAN, with_cache_filename \in BOOLEAN,
        mkdir_ok \in BOOLEAN, read_filing_ok \in BOOLEAN, read_exhibit_ok \in BOOLEAN :
       FetchBecomes(FetchBegin(
         FetchArgs(AppleCik, Accession1, Document1, use_disk_cache, with_cache_filename),
         disk, CacheDirExists, mkdir_ok, read_filing_ok, read_exhibit_ok))

FetchStep ==
  /\ fetch.pc \in {"request", "exhibit"}
  /\ \E n \in FetchSteps(FetchNow) : FetchBecomes(n)
  /\ UNCHANGED f_calls

FetchIdle ==
  /\ netlog = <<>>
  /\ fetch = FetchState("idle", NoArgs, NoFiles, 0, None, None, None, <<>>, NoObs)
  /\ f_calls = 0

(***************************************************************************)
(* sec_search: dates, the filter of the filings index, one filing.         *)
(***************************************************************************)
IsLeap(y) == (y % 4 = 0 /\ y % 100 # 0) \/ y % 400 = 0

DaysInMonth(y, m) ==
  CASE m \in {4, 6, 9, 11} -> 30
    [] m = 2 -> IF IsLeap(y) THEN 29 ELSE 28
    [] OTHER -> 31

\* datetime.strptime(s, "%Y-%m-%d"): Some(<<year, month, day>>), None for ValueError
ParseDate(s) ==
  LET y == BeforeFirst(s, "-")
      r == AfterFirst(s, "-")
      m == BeforeFirst(r, "-")
      d == AfterFirst(r, "-")
  IN  IF /\ FindChar(s, "-") # 0
         /\ FindChar(r, "-") # 0
         /\ AllDigits(y) /\ Len(y) = 4 /\ DigitsToNat(y) >= 1
         /\ AllDigits(m) /\ Len(m) <= 2 /\ DigitsToNat(m) \in 1..12
         /\ AllDigits(d) /\ Len(d) <= 2
         /\ DigitsToNat(d) \in 1..DaysInMonth(DigitsToNat(y), DigitsToNat(m))
      THEN Some(<<DigitsToNat(y), DigitsToNat(m), DigitsToNat(d)>>)
      ELSE None

\* a <= b for two parsed dates
DateNotAfter(a, b) ==
  \/ a[1] < b[1]
  \/ a[1] = b[1] /\ a[2] < b[2]
  \/ a[1] = b[1] /\ a[2] = b[2] /\ a[3] <= b[3]

\* a < b for two parsed dates
DateBefore(a, b) ==
  \/ a[1] < b[1]
  \/ a[1] = b[1] /\ a[2] < b[2]
  \/ a[1] = b[1] /\ a[2] = b[2] /\ a[3] < b[3]

\* the default of the parameter form_types
DefaultFormTypes ==
  { F_10K, F_10K \o <<"/","A">>, <<"1","0","-","Q">>, <<"1","0","-","Q","/","A">>,
    F_8K, F_8K \o <<"/","A">>, F_DEF14A, F_DEFA14A }

\* any(ft.upper() in form.upper() for ft in form_types)
FormRequested(form, form_types) == \E ft \in form_types : Has(StrUpper(form), StrUpper(ft))

\* the start_date or end_date given cannot be parsed
InvalidDateBounds(args) ==
  \/ Truthy(args.start_date) /\ ~ParseDate(args.start_date.val).some
  \/ Truthy(args.end_date) /\ ~ParseDate(args.end_date.val).some

\* the row of the index passes the form filter and the date filter
Located(row, args) ==
  /\ FormRequested(row.form, args.form_types)
  /\ (Truthy(args.start_date) \/ Truthy(args.end_date)) =>
       /\ ParseDate(row.filing_date).some
       /\ Truthy(args.start_date) =>
            ~DateBefore(ParseDate(row.filing_date).val, ParseDate(args.start_date.val).val)
       /\ Truthy(args.end_date) =>
            ~DateBefore(ParseDate(args.end_date.val).val, ParseDate(row.filing_date).val)

\* raw_filings: the located rows, in the order of the index
RECURSIVE LocatedFilings(_, _)
LocatedFilings(rows, args) ==
  IF rows = <<>> THEN <<>>
  ELSE (IF Located(Head(rows), args) THEN <<Head(rows)>> ELSE <<>>)
         \o LocatedFilings(Tail(rows), args)

\* content[:12000]
SectionCap == 12000

\* the patterns that are a heading followed by [\s\S]{0,N}, with their N
PatternReach ==
  [guidance_section |-> 4000, earnings_release |-> 6000, financial_outlook |-> 5000,
   board_nominees |-> 8000, nominee_details |-> 5000, director_qualifications |-> 8000,
   three_months_ended |-> 4000]

\* the text of a section: what the pattern captures from its heading on, cut
\* at 12000 characters and stripped
SectionText(text, key) ==
  LET content == IF key \in DOMAIN PatternReach
                 THEN Min({text.chars, PatternReach[key]})
                 ELSE text.chars
  IN  [empty |-> FALSE, phrases |-> text.window, window |-> text.window,
       chars |-> Min({content, SectionCap})]

NoGuidance == [raised |-> FALSE, keys |-> {}]

\* step 5 without the fallback: the section when there is one, else the combined text
GuidanceSectionOnly(form, sections, filing_text, combined_text) ==
  IF ~Has(StrUpper(form), F_8K) THEN NoGuidance
  ELSE IF "guidance_section" \in sections
  THEN extract_guidance_data(SectionText(filing_text, "guidance_section"))
  ELSE extract_guidance_data(combined_text)

\* step 5 of the loop body: the guidance of a filing
GuidanceFor(form, sections, filing_text, combined_text) ==
  LET is8k == Has(StrUpper(form), F_8K)
      from_section == IF is8k /\ "guidance_section" \in sections
                      THEN extract_guidance_data(SectionText(filing_text, "guidance_section"))
                      ELSE NoGuidance
  IN  IF is8k /\ ~from_section.raised /\ from_section.keys = {}
      THEN extract_guidance_data(combined_text)
      ELSE from_section

\* the body of the loop after the fetch, for a filing whose text is not empty:
\* raised = an exception leaves sec_search, entry = the entry appended (None: none)
ProcessFiling(filing, cik, filing_text, exhibit_text) ==
  LET form_upper == StrUpper(filing.form)
      sections == extract_all_sections(filing_text, filing.form)
                    \cup (IF TruthyText(exhibit_text) THEN {"exhibit_99_1"} ELSE {})
      combined_text == IF TruthyText(exhibit_text) THEN Concat(exhibit_text.val, filing_text)
                       ELSE IF "earnings_release" \in sections
                       THEN Concat(SectionText(filing_text, "earnings_release"), filing_text)
                       ELSE filing_text
      metrics == extract_financial_data(combined_text)
      guidance == GuidanceFor(filing.form, sections, filing_text, combined_text)
      nominees == IF Has(form_upper, F_DEF14A) THEN extract_board_nominees(filing_text) ELSE {}
      entry == [date |-> filing.filing_date,
                form |-> filing.form,
                accession |-> filing.accession_number,
                url |-> DocUrl(cik, filing.accession_number, filing.primary_document),
                financial_metrics |-> metrics.keys,
                facts |-> metrics.facts,
                sections |-> sections,
                section_chars |-> [key \in sections |->
                                     IF key = "exhibit_99_1" THEN exhibit_text.val.chars
                                     ELSE SectionText(filing_text, key).chars],
                guidance_data |-> guidance.keys,
                board_nominees |-> nominees]
  IN  IF metrics.raised \/ guidance.raised
      THEN [raised |-> TRUE, entry |-> None]
      ELSE [raised |-> FALSE,
            entry |-> IF sections # {} \/ metrics.keys # {} \/ guidance.keys # {} \/ nominees # {}
                      THEN Some(entry) ELSE None]

(***************************************************************************)
(* sec_search: state and steps.                                            *)
(***************************************************************************)
VARIABLES
  s_pc,         \* sec_search: "idle", "index", "loop", "done", "raised"
  s_args,       \* its arguments
  s_cik,        \* the local cik
  s_ticker,     \* the local ticker
  s_raw,        \* the local raw_filings
  s_idx,        \* the place in raw_filings of the next filing of the loop
  s_timeline,   \* the local timeline
  s_fetched,    \* what the fetches of the loop returned so far, in order
  s_ret         \* the returned dict

searchVars ==
  <<archive_file, s_pc, s_args, s_cik, s_ticker, s_raw, s_idx, s_timeline, s_fetched, s_ret>>

SearchArgs(company_name, ticker_symbol, cik, start_date, end_date, use_disk_cache) ==
  [company_name |-> company_name, ticker_symbol |-> ticker_symbol, cik |-> cik,
   form_types |-> DefaultFormTypes,
   start_date |-> start_date, end_date |-> end_date, use_disk_cache |-> use_disk_cache]

NoSearchArgs == SearchArgs(None, None, None, None, None, FALSE)

TickersUrl == Url("tickers", None, None, None)

ArchiveUrl == Url("archive", None, None, None)

\* f"https://data.sec.gov/submissions/CIK{cik}.json"
IndexUrl(cik) == Url("index", Some(cik), None, None)

CompanyNotFound == [kind |-> "error", error |-> "Company not found"]

ApiStatus == [kind |-> "error", error |-> "SEC API returned status"]

FailedToFetch == [kind |-> "error", error |-> "Failed to fetch submissions"]

InvalidDate == [kind |-> "error", error |-> "Invalid date format. Use YYYY-MM-DD"]

\* the dict returned at the end
Result(cik, ticker, timeline) ==
  [kind |-> "result", cik |-> cik,
   ticker_symbol |-> IF Truthy(ticker) THEN ticker.val ELSE <<>>,
   timeline |-> timeline, total_found |-> Len(timeline)]

\* sec_search ends by an exception
SearchRaise ==
  /\ s_pc' = "raised"
  /\ s_ret' = None

SearchReturn(d) ==
  /\ s_pc' = "done"
  /\ s_ret' = Some(d)

\* the loop is at place idx of raw with the timeline so far: it goes on, or
\* sec_search returns after the last filing
LoopAt(raw, idx, timeline) ==
  /\ s_idx' = idx
  /\ s_timeline' = timeline
  /\ IF idx > Len(raw)
     THEN SearchReturn(Result(s_cik.val, s_ticker, timeline))
     ELSE s_pc' = "loop" /\ s_ret' = None

\* the resolution of the cik falls to the resolvers
Resolving(args) == (Truthy(args.company_name) \/ Truthy(args.ticker_symbol)) /\ ~Truthy(args.cik)

\* the call, with the resolution of the cik: r1 is what
\* get_cik_from_ticker_or_name does when called, r2 what get_cik_from_archive does
SearchCalled(args, r1, r2) ==
  LET cik1 == IF Resolving(args) THEN r1.ret[1] ELSE args.cik
      ticker1 == IF Resolving(args) THEN r1.ret[2] ELSE args.ticker_symbol
      to_archive == Resolving(args) /\ ~Truthy(cik1)
      cik2 == IF to_archive THEN r2.ret ELSE cik1
  IN  /\ s_args' = args
      /\ s_ticker' = ticker1
      /\ s_cik' = cik2
      /\ netlog' = netlog \o (IF Resolving(args) /\ r1.requested THEN <<TickersUrl>> ELSE <<>>)
                          \o (IF to_archive /\ r2.requested THEN <<ArchiveUrl>> ELSE <<>>)
      /\ archive_file' = IF to_archive THEN r2.cache_file ELSE archive_file
      /\ IF to_archive /\ r2.kind = "raise" THEN SearchRaise
         ELSE IF ~Truthy(cik2) THEN SearchReturn(CompanyNotFound)
         ELSE s_pc' = "index" /\ s_ret' = None
      /\ UNCHANGED <<disk, s_raw, s_idx, s_timeline, s_fetched>>

\* the request of the filings index, the date bounds, the filter
SearchIndexed(resp) ==
  /\ s_pc = "index"
  /\ netlog' = Append(netlog, IndexUrl(s_cik.val))
  /\ UNCHANGED <<disk, archive_file, s_args, s_cik, s_ticker, s_fetched>>
  /\ IF resp.kind = "ok" /\ ~InvalidDateBounds(s_args) /\ resp.well_formed
     THEN /\ s_raw' = LocatedFilings(resp.rows, s_args)
          /\ LoopAt(LocatedFilings(resp.rows, s_args), 1, <<>>)
     ELSE /\ CASE resp.kind = "status" -> SearchReturn(ApiStatus)
                [] resp.kind = "error" -> SearchReturn(FailedToFetch)
                [] InvalidDateBounds(s_args) -> SearchReturn(InvalidDate)
                [] OTHER -> SearchRaise
          /\ UNCHANGED <<s_raw, s_idx, s_timeline>>

\* what sec_search sees of a call of fetch_filing_and_exhibit_html with the
\* files d: raised, the returned pair, the files and the requests of the call
FetchResults(args, d, dir_exists) ==
  { [raised |-> e.pc = "raised", ret |-> e.ret, disk |-> e.disk, requests |-> e.obs.requests] :
      e \in fetch_filing_and_exhibit_html(args, d, dir_exists) }

\* the pass of the loop with the entry put before the entries made so far
SearchFetchedNewestFirst(o) ==
  LET filing == s_raw[s_idx]
      r == ProcessFiling(filing, s_cik.val, o.ret.val.filing, o.ret.val.exhibit)
  IN  /\ disk' = o.disk
      /\ netlog' = netlog \o o.requests
      /\ s_fetched' = Append(s_fetched, o.ret)
      /\ UNCHANGED <<archive_file, s_args, s_cik, s_ticker, s_raw>>
      /\ IF o.raised
         THEN SearchRaise /\ UNCHANGED <<s_idx, s_timeline>>
         ELSE IF ~NonEmpty(o.ret.val.filing)
         THEN LoopAt(s_raw, s_idx + 1, s_timeline)
         ELSE IF r.raised
         THEN SearchRaise /\ UNCHANGED <<s_idx, s_timeline>>
         ELSE LoopAt(s_raw, s_idx + 1,
                     IF r.entry.some THEN <<r.entry.val>> \o s_timeline ELSE s_timeline)

\* the pass of the loop for the filing at place s_idx: the fetch, which ends
\* as o, and the rest of the loop body
SearchFetched(o) ==
  LET filing == s_raw[s_idx]
      r == ProcessFiling(filing, s_cik.val, o.ret.val.filing, o.ret.val.exhibit)
  IN  /\ disk' = o.disk
      /\ netlog' = netlog \o o.requests
      /\ s_fetched' = Append(s_fetched, o.ret)
      /\ UNCHANGED <<archive_file, s_args, s_cik, s_ticker, s_raw>>
      /\ IF o.raised
         THEN SearchRaise /\ UNCHANGED <<s_idx, s_timeline>>
         ELSE IF ~NonEmpty(o.ret.val.filing)
         THEN LoopAt(s_raw, s_idx + 1, s_timeline)
         ELSE IF r.raised
         THEN SearchRaise /\ UNCHANGED <<s_idx, s_timeline>>
         ELSE LoopAt(s_raw, s_idx + 1,
                     IF r.entry.some THEN Append(s_timeline, r.entry.val) ELSE s_timeline)

SearchIdle ==
  /\ s_pc = "idle"
  /\ s_args = NoSearchArgs
  /\ s_cik = None
  /\ s_ticker = None
  /\ s_raw = <<>>
  /\ s_idx = 0
  /\ s_timeline = <<>>
  /\ s_fetched = <<>>
  /\ s_ret = None

(***************************************************************************)
(* What sec_search is called with and what the endpoints answer.           *)
(***************************************************************************)
S_AppleInc == <<"A","p","p","l","e"," ","I","n","c",".">>

S_AAPL == <<"A","A","P","L">>

S_ZZZZ == <<"Z","Z","Z","Z">>

S_Bar == <<"B","a","r">>

S_320193 == <<"3","2","0","1","9","3">>

D_2024_01_15 == <<"2","0","2","4","-","0","1","-","1","5">>

D_2024_02_01 == <<"2","0","2","4","-","0","2","-","0","1">>

D_2024_02_20 == <<"2","0","2","4","-","0","2","-","2","0">>

D_Bad == <<"2","0","2","4","/","0","2","/","0","1">>

Accession2 == <<"0","1","-","2","4","-","2">>

Document2 == <<"b",".","h","t","m">>

\* company_tickers_exchange.json: rows of cik, name, ticker, exchange
TickerRows == << <<JInt(320193), Some(S_AppleInc), Some(S_AAPL), "Nasdaq">> >>

TickerResponses == { [kind |-> "ok", rows |-> TickerRows], [kind |-> "status"], [kind |-> "error"] }

\* cik-lookup-data.txt: a company whose name holds a colon
ArchiveLines ==
  << <<"B","A","R",":"," ","B","A","Z"," ","C","O","R","P",":",
       "0","0","0","0","0","0","1","2","3","4",":">> >>

ArchiveOk == [kind |-> "ok", lines |-> ArchiveLines]

ArchiveAnswers == { ArchiveOk, [kind |-> "status"], [kind |-> "error"] }

ArchiveEnv(mkdir_ok, read_ok, write, resp) ==
  [mkdir_ok |-> mkdir_ok, read_ok |-> read_ok, write |-> write, resp |-> resp]

\* what a call of get_cik_from_archive may meet: the outcome of mkdir (it can
\* fail only when data/sec does not exist), then of the read of the cache
\* file, else the answer of the endpoint and the outcome of the write
ArchiveEnvs(use_disk_cache, cache_file, dir_exists) ==
  IF ~use_disk_cache
  THEN { ArchiveEnv(TRUE, TRUE, "ok", a) : a \in ArchiveAnswers }
  ELSE (IF dir_exists THEN {} ELSE { ArchiveEnv(FALSE, TRUE, "ok", [kind |-> "error"]) })
         \cup (IF cache_file.some
               THEN { ArchiveEnv(TRUE, r, "ok", [kind |-> "error"]) : r \in BOOLEAN }
               ELSE { ArchiveEnv(TRUE, TRUE, "ok", a) : a \in ArchiveAnswers \ {ArchiveOk} }
                      \cup { ArchiveEnv(TRUE, TRUE, w, ArchiveOk) : w \in WriteOutcomes })

IndexRow(form, filing_date, accession_number, primary_document) ==
  [form |-> form, filing_date |-> filing_date, accession_number |-> accession_number,
   primary_document |-> primary_document]

Row10K == IndexRow(F_10K, D_2024_01_15, Accession1, Document1)

Row8K == IndexRow(F_8K, D_2024_02_20, Accession2, Document2)

RowDEF14A == IndexRow(F_DEF14A, D_2024_02_20, Accession2, Document2)

RowForm4 == IndexRow(<<"4">>, D_2024_02_20, Accession2, Document2)

\* a row whose filingDate is not a date
RowBadDate == IndexRow(F_10K, D_Bad, Accession1, Document1)

IndexPool == { <<RowForm4, Row10K>>, <<RowDEF14A>>, <<Row8K, Row10K>>, <<RowBadDate>> }

\* the answers of the filings index: a status other than 200, an exception of
\* the request or of the JSON decoding, a JSON document that lacks a list of
\* the index, the index
IndexResponses ==
  { [kind |-> "status"], [kind |-> "error"], [kind |-> "ok", well_formed |-> FALSE, rows |-> <<>>] }
    \cup { [kind |-> "ok", well_formed |-> TRUE, rows |-> rows] : rows \in IndexPool }

\* the filings index knows one company
IndexAnswers(cik) ==
  IF cik = AppleCik THEN IndexResponses ELSE { [kind |-> "status"], [kind |-> "error"] }

SearchArgPool ==
  { SearchArgs(a[1], a[2], a[3], a[4], a[5], use_disk_cache) :
      a \in { <<None, None, None, None, None>>,
              <<None, Some(S_AAPL), None, None, None>>,
              <<None, Some(S_ZZZZ), None, None, None>>,
              <<Some(S_AppleInc), None, None, None, None>>,
              <<Some(S_Bar), None, None, None, None>>,
              <<None, None, Some(S_320193), None, None>>,
              <<None, None, Some(AppleCik), Some(D_Bad), None>>,
              <<None, None, Some(AppleCik), Some(D_2024_02_01), Some(D_2024_02_20)>> },
      use_disk_cache \in BOOLEAN }

\* get_cik_from_archive is not called
ArchiveNotCalled == [kind |-> "ret", ret |-> None, requested |-> FALSE, cache_file |-> None]

\* the cache at the start: empty, or left by an earlier search
DiskPool == { NoFiles, PutFile(NoFiles, CacheFilename(AppleCik, Accession1, Document1), Revenues) }

SearchCall ==
  /\ s_pc = "idle"
  /\ \E args \in SearchArgPool :
       \E tickers \in IF Resolving(args) THEN TickerResponses ELSE { [kind |-> "status"] } :
         LET r1 == get_cik_from_ticker_or_name(args.company_name, args.ticker_symbol, tickers)
         IN  IF Resolving(args) /\ ~Truthy(r1.ret[1])
             THEN \E env \in ArchiveEnvs(args.use_disk_cache, archive_file, CacheDirExists) :
                    SearchCalled(args, r1,
                      get_cik_from_archive(args.company_name, args.use_disk_cache, TRUE,
                                           archive_file, env))
             ELSE SearchCalled(args, r1, ArchiveNotCalled)

SearchIndex ==
  /\ s_pc = "index"
  /\ \E resp \in IndexAnswers(s_cik.val) : SearchIndexed(resp)

SearchFiling ==
  /\ s_pc = "loop"
  /\ \E o \in FetchResults(FetchArgs(s_cik.val, s_raw[s_idx].accession_number,
                                      s_raw[s_idx].primary_document, s_args.use_disk_cache, TRUE),
                            disk, CacheDirExists) :
       SearchFetched(o)

(***************************************************************************)
(* clean_company_name on a name and on an edited copy of it: state.        *)
(***************************************************************************)
VARIABLES
  name1,   \* a company name
  name2,   \* the name after the edits
  edits,   \* the kinds of the edits made: "case", "the", "suffix", "punct"
  keys     \* None, or Some of the keys clean_company_name returns for name1 and name2

cleanVars == <<name1, name2, edits, keys>>

CleanIdle == name1 = <<>> /\ name2 = <<>> /\ edits = {} /\ keys = None

S_Apple == <<"A","p","p","l","e">>

S_TheGap == <<"T","h","e"," ","G","a","p">>

BaseNames == { S_Apple, S_TheGap }

\* legal-entity suffixes as they are written after a name
SuffixPool ==
  { <<" ","I","n","c">>, <<",", " ","I","n","c",".">>, <<" ","L",".","L",".","C",".">> }

PunctPool == { ",", "&", "!" }

TheSpace == <<"T","h","e"," ">>

\* name2 becomes name, by an edit of the kind
Edited(kind, name) ==
  /\ kind \notin edits
  /\ name # name2
  /\ name2' = name
  /\ edits' = edits \cup {kind}
  /\ keys' = Some(<<clean_company_name(name1), clean_company_name(name)>>)
  /\ UNCHANGED name1

EditCase == \E name \in {StrUpper(name2), StrLower(name2)} : Edited("case", name)

EditThe == Edited("the", TheSpace \o name2)

EditSuffix == \E suffix \in SuffixPool : Edited("suffix", name2 \o suffix)

EditPunct ==
  \E c \in PunctPool, p \in 0..Len(name2) :
    Edited("punct", SubSeq(name2, 1, p) \o <<c>> \o SubSeq(name2, p + 1, Len(name2)))

(***************************************************************************)
(* get_cik_from_ticker_or_name on a registry, for one of its rows: state.  *)
(***************************************************************************)
VARIABLES
  r_rows,  \* the rows of company_tickers_exchange.json
  r_row,   \* the place of the row looked for (0: none yet)
  r_how,   \* "none", "ticker" (called with the ticker of the row only), "name"
  r_ret    \* the returned pair

resolveVars == <<r_rows, r_row, r_how, r_ret>>

ResolveIdle == r_rows = <<>> /\ r_row = 0 /\ r_how = "none" /\ r_ret = <<None, None>>

MaxRows == 3

RegistryRow(cik, name, ticker) == <<cik, Some(name), Some(ticker), "Nasdaq">>

RowPool ==
  { RegistryRow(JInt(1), <<"C","o",".">>, <<"Z","Z">>),
    RegistryRow(JInt(320193), S_AppleInc, S_AAPL),
    RegistryRow(JStr(<<"1","2","3","4">>), <<"B","a","r"," ","L","t","d">>, <<"B","A","R">>),
    RegistryRow(JNull, <<"F","o","o">>, <<"F","O","O">>) }

\* the registries: up to MaxRows rows of the pool, none of them twice
Registries ==
  UNION { { rows \in [1..n -> RowPool] : \A i, j \in 1..n : i # j => rows[i] # rows[j] } :
          n \in 1..MaxRows }

\* the row has a valid id
ValidRow(row) == PyInt(row[1]).some

ResolveByTicker ==
  \E r \in 1..Len(r_rows) :
    /\ ValidRow(r_rows[r])
    /\ r_row' = r
    /\ r_how' = "ticker"
    /\ r_ret' = get_cik_from_ticker_or_name(None, r_rows[r][3],
                                            [kind |-> "ok", rows |-> r_rows]).ret
    /\ UNCHANGED r_rows

ResolveByName ==
  \E r \in 1..Len(r_rows) :
    /\ ValidRow(r_rows[r])
    /\ r_row' = r
    /\ r_how' = "name"
    /\ r_ret' = get_cik_from_ticker_or_name(r_rows[r][2], None,
                                            [kind |-> "ok", rows |-> r_rows]).ret
    /\ UNCHANGED r_rows

\* called with the ticker of row r and the legal name of row q
ResolveByBoth ==
  \E r \in 1..Len(r_rows), q \in 1..Len(r_rows) :
    /\ ValidRow(r_rows[r])
    /\ r # q
    /\ r_row' = r
    /\ r_how' = "both"
    /\ r_ret' = get_cik_from_ticker_or_name(r_rows[q][2], r_rows[r][3],
                                            [kind |-> "ok", rows |-> r_rows]).ret
    /\ UNCHANGED r_rows

(***************************************************************************)
(* The filter of the filings index in sec_search, on an index and bounds.  *)
(***************************************************************************)
VARIABLES
  locate,     \* the index rows (recent), the arguments and raw_filings
  process     \* one located filing, its texts and what the loop body makes of them

locateVars == <<locate>>

processVars == <<process>>

LocateIdle == locate = [pc |-> "idle", rows |-> <<>>, args |-> NoSearchArgs, raw |-> <<>>]

ProcessIdle ==
  process = [pc |-> "idle", filing |-> IndexRow(<<>>, <<>>, <<>>, <<>>),
             filing_text |-> EmptyText, exhibit_text |-> None, raised |-> FALSE, entry |-> None]

\* the greatest number of rows of an index
MaxIndexRows == 2

D_2024_01_31 == <<"2","0","2","4","-","0","1","-","3","1">>

D_2024_02_21 == <<"2","0","2","4","-","0","2","-","2","1">>

F_8KA == F_8K \o <<"/","A">>

LocateRowPool ==
  { IndexRow(form, filing_date, Accession1, Document1) :
      form \in {F_10K, F_8KA, <<"4">>},
      filing_date \in {D_2024_01_31, D_2024_02_01, D_2024_02_20, D_2024_02_21, D_Bad} }

LocateIndexPool == UNION { [1..n -> LocateRowPool] : n \in 0..MaxIndexRows }

FormTypesPool == { DefaultFormTypes, {<<"8","-","k">>} }

LocateArgPool ==
  { [SearchArgs(None, None, Some(AppleCik), start_date, end_date, FALSE)
       EXCEPT !.form_types = form_types] :
      form_types \in FormTypesPool,
      start_date \in {None, Some(D_2024_02_01)},
      end_date \in {None, Some(D_2024_02_20)} }

\* the loop over the rows of the index
Locate ==
  /\ locate.pc = "idle"
  /\ locate' = [locate EXCEPT !.pc = "done",
                              !.raw = LocatedFilings(locate.rows, locate.args)]

(***************************************************************************)
(* One call of an extractor on a text.                                     *)
(***************************************************************************)
VARIABLES
  extractor   \* the call of an extractor: its input and what it returned

extractVars == <<extractor>>

ExtractIdle == extractor = [pc |-> "idle", input |-> <<>>, result |-> None]

(***************************************************************************)
(* extract_pretax_margin_data.  A text is a sequence of tokens, the units  *)
(* the four patterns and the pattern of the difference tell apart; a       *)
(* percentage is a number of hundredths of a point.                        *)
(***************************************************************************)
T_Quarter == "Q3"

T_Margin == "pretax profit margin of 12.3%"

T_MarginWas == "pretax margin was 11.6%"

T_Above == "well above"

T_Below == "below"

T_Plan == "plan"

T_Up30 == "up 0.3 percentage points"

T_Up29 == "up 0.29 percentage points"

T_By70 == "by 0.7 percentage points"

\* the end of a line, which `.` does not match
T_Newline == "newline"

\* 600 characters of other text on the same line: more than the 200
\* characters before and the 500 after the match that the context spans
T_Far == "600 other characters"

MarginTokens ==
  { T_Quarter, T_Margin, T_MarginWas, T_Above, T_Below, T_Plan, T_Up30, T_Up29, T_By70,
    T_Newline, T_Far }

\* float(match.group(1)) of the margin of a token, in hundredths
TokenValue(tok) == IF tok = T_Margin THEN 1230 ELSE 1160

\* float(...) of the difference of a token, in hundredths
TokenDelta(tok) == CASE tok = T_Up30 -> 30 [] tok = T_Up29 -> 29 [] OTHER -> 70

\* (?:up|down|by)\s+([\d.]+)\s+percentage\s+points?
IsDelta(tok) == tok \in {T_Up30, T_Up29, T_By70}

\* (above|below)
IsDirection(tok) == tok \in {T_Above, T_Below}

\* the place of the end of the line of place i: of its newline, or past the text
LineEnd(text, i) ==
  IF \E k \in i..Len(text) : text[k] = T_Newline
  THEN Min({k \in i..Len(text) : text[k] = T_Newline})
  ELSE Len(text) + 1

\* int(diff * 100) for a difference of h hundredths below one point: the
\* product of the doubles is just below h for 0.29, 0.57 and 0.58
TimesHundred(h) == IF h \in {29, 57, 58} THEN h - 1 ELSE h

\* round(x, 1) for x of h hundredths, h not half way between two tenths
RoundTenth(h) == ((h + 5) \div 10) * 10

\* the places after place i, on its line, of a direction that a plan follows
PlanDirections(text, i) ==
  { j \in (i + 1)..(LineEnd(text, i) - 1) :
      /\ IsDirection(text[j])
      /\ \E k \in (j + 1)..(LineEnd(text, i) - 1) : text[k] = T_Plan }

\* the places where the pattern tjx_style matches
TjxMatches(text) == { i \in 1..Len(text) : text[i] = T_Margin /\ PlanDirections(text, i) # {} }

\* the places after place i, on its line, of a direction followed by a plan
\* followed by a difference introduced by "by"
ByDirections(text, i) ==
  { j \in (i + 1)..(LineEnd(text, i) - 1) :
      /\ IsDirection(text[j])
      /\ \E k \in (j + 1)..(LineEnd(text, i) - 1) :
           /\ text[k] = T_Plan
           /\ \E l \in (k + 1)..(LineEnd(text, i) - 1) : text[l] = T_By70 }

\* the places where the pattern explicit_diff matches
ExplicitMatches(text) ==
  { i \in 1..Len(text) : text[i] \in {T_Margin, T_MarginWas} /\ ByDirections(text, i) # {} }

\* the places where the pattern simple matches, and a mutant that does not
\* look behind a quarter
SimpleMatchesUnscoped(text) ==
  { i \in 1..Len(text) : text[i] = T_Margin /\ (i = 1 \/ text[i - 1] # T_Quarter) }

SimpleMatches(text) == { i \in 1..Len(text) : text[i] = T_Margin }

\* the places where the pattern quarterly matches: a quarter, white space
\* (newlines too), the margin
QuarterlyMatches(text) ==
  { i \in 1..Len(text) :
      /\ text[i] = T_Quarter
      /\ \E m \in (i + 1)..Len(text) :
           /\ text[m] = T_Margin
           /\ \A n \in (i + 1)..(m - 1) : text[n] = T_Newline }

\* the values of the places of S in increasing order
RECURSIVE ValuesAt(_, _)
ValuesAt(text, S) ==
  IF S = {} THEN <<>> ELSE <<TokenValue(text[Min(S)])>> \o ValuesAt(text, S \ {Min(S)})

\* x[:n]
Take(x, n) == SubSeq(x, 1, IF Len(x) < n THEN Len(x) ELSE n)

\* the dict returned, a key that is absent being None
MarginResult(actual_pct, beat_or_miss, confidence, source, difference_bps,
             guidance_high_pct, margin_values, quarterly_values) ==
  [actual_pct |-> actual_pct, beat_or_miss |-> beat_or_miss, confidence |-> confidence,
   source |-> source, difference_bps |-> difference_bps,
   guidance_high_pct |-> guidance_high_pct, margin_values |-> margin_values,
   quarterly_values |-> quarterly_values]

NoMargin == MarginResult(None, None, None, None, None, None, None, None)

BeatOrMiss(direction) == IF direction = T_Above THEN "beat" ELSE "miss"

\* actual - diff for a beat, actual + diff for a miss, rounded to one decimal
GuidanceHigh(actual, beat_or_miss, diff) ==
  RoundTenth(IF beat_or_miss = "beat" THEN actual - diff ELSE actual + diff)

\* the confidence of a match of tjx_style: 'medium', raised to 'high' when
\* the difference is found near it; and a mutant that is 'high' either way
TjxConfidenceAlwaysHigh(found) == "high"

TjxConfidence(found) == IF found THEN "high" ELSE "medium"

extract_pretax_margin_data(text) ==
  IF TjxMatches(text) # {}
  THEN LET i == Min(TjxMatches(text))
           j == Min(PlanDirections(text, i))
           k == Min({n \in (j + 1)..Len(text) : text[n] = T_Plan})
           lo == IF \E n \in 1..(i - 1) : text[n] = T_Far
                 THEN Min({n \in 1..i : \A m \in n..(i - 1) : text[m] # T_Far})
                 ELSE 1
           hi == IF \E n \in (k + 1)..Len(text) : text[n] = T_Far
                 THEN Min({n \in (k + 1)..Len(text) : text[n] = T_Far}) - 1
                 ELSE Len(text)
           context == {n \in lo..hi : IsDelta(text[n])}
           actual == TokenValue(text[i])
           beat_or_miss == BeatOrMiss(text[j])
       IN  IF context # {}
           THEN LET diff == TokenDelta(text[Min(context)])
                IN  MarginResult(Some(actual), Some(beat_or_miss), Some(TjxConfidence(TRUE)),
                                 Some("tjx_style_above_below_plan"), Some(TimesHundred(diff)),
                                 Some(GuidanceHigh(actual, beat_or_miss, diff)), None, None)
           ELSE MarginResult(Some(actual), Some(beat_or_miss), Some(TjxConfidence(FALSE)),
                             Some("tjx_style_above_below_plan"), None, None, None, None)
  ELSE IF ExplicitMatches(text) # {}
  THEN LET i == Min(ExplicitMatches(text))
           j == Min(ByDirections(text, i))
           actual == TokenValue(text[i])
           diff == TokenDelta(T_By70)
           beat_or_miss == BeatOrMiss(text[j])
       IN  MarginResult(Some(actual), Some(beat_or_miss), Some("high"),
                        Some("explicit_difference"), Some(TimesHundred(diff)),
                        Some(GuidanceHigh(actual, beat_or_miss, diff)), None, None)
  ELSE IF SimpleMatches(text) # {}
  THEN MarginResult(None, None, Some("low"), Some("simple_extraction"), None, None,
                    Some(Take(ValuesAt(text, SimpleMatches(text)), 3)), None)
  ELSE IF QuarterlyMatches(text) # {}
  THEN MarginResult(None, None, Some("low"), Some("quarterly_mentions"), None, None, None,
                    Some(Take(ValuesAt(text, {i + 1 : i \in QuarterlyMatches(text)}), 4)))
  ELSE NoMargin

\* the greatest number of tokens of a text
MaxTokens == 4

MarginTexts == UNION { [1..n -> MarginTokens] : n \in 0..MaxTokens }

\* the call of extract_pretax_margin_data
ExtractMargin ==
  /\ extractor.pc = "ready"
  /\ extractor' = [extractor EXCEPT !.pc = "done",
                                    !.result = Some(extract_pretax_margin_data(extractor.input))]

(***************************************************************************)
(* The ARPPU part of extract_financial_data.  Its input is the sequence of *)
(* the values that the four label patterns capture, pattern by pattern,    *)
(* each a number with two decimals, here a number of cents.                *)
(***************************************************************************)
\* 5.0 <= val <= 25.0
ArppuAccepted(val) == 500 <= val /\ val <= 2500

\* the loop over the patterns and their matches
SafeValues(captures) == SelectSeq(captures, ArppuAccepted)

\* sorted(S)
RECURSIVE Sorted(_)
Sorted(S) == IF S = {} THEN <<>> ELSE <<Min(S)>> \o Sorted(S \ {Min(S)})

\* the number of the places of a sequence that hold v
Occurrences(x, v) == Cardinality({i \in 1..Len(x) : x[i] = v})

\* Counter(x).most_common(1)[0][0]: the value counted most often, the one
\* met first among equals
MostCommon(x) ==
  x[Min({i \in 1..Len(x) : \A j \in 1..Len(x) : Occurrences(x, x[j]) <= Occurrences(x, x[i])})]

\* the number of values kept in arppu_direct
ArppuDirectCap == 5

\* the dict result of the ARPPU part, a key that is absent being None
extract_arppu_data(captures) ==
  LET safe_values == SafeValues(captures)
  IN  IF safe_values # <<>>
      THEN [arppu_direct |-> Some(Take(Sorted(Range(safe_values)), ArppuDirectCap)),
            arppu_overall |-> Some(<<MostCommon(safe_values)>>),
            source |-> Some("global_mode_from_direct")]
      ELSE [arppu_direct |-> None, arppu_overall |-> None, source |-> None]

\* the greatest number of values captured in a text
MaxCaptures == 6

\* values in the band, its two ends among them, and one above it
CapturePool == {500, 1550, 1781, 2000, 2250, 2500, 2501}

CaptureSeqs == UNION { [1..n -> CapturePool] : n \in 0..MaxCaptures }

\* the ARPPU part of a call of extract_financial_data
ExtractArppu ==
  /\ extractor.pc = "ready"
  /\ extractor' = [extractor EXCEPT !.pc = "done",
                                    !.result = Some(extract_arppu_data(extractor.input))]

(***************************************************************************)
(* The dict of extract_guidance_data with its lists and its confidence.    *)
(* A text is a set of sentences, each on a line of its own.                *)
(***************************************************************************)
G_Revenue == "Revenue guidance of $5.0 billion to $5.2 billion"

G_Margin == "Margin guidance of 10.8% to 10.9%"

G_Eps == "EPS guidance of $2.50 to $2.60 per share"

\* the range at the end of a sentence: the second number captured is
\* "2.60." and float raises ValueError on it
G_EpsFullStop == "EPS guidance of $2.50 to $2.60."

G_Period == "Results for fiscal 2025"

G_Fallback == "Our guidance is 5% growth"

\* float raises ValueError on "1.2.3", outside a try
G_FallbackBad == "Our guidance is 1.2.3% growth"

GuidanceSentences ==
  {G_Revenue, G_Margin, G_Eps, G_EpsFullStop, G_Period, G_Fallback, G_FallbackBad}

\* the list of a key: None when its pattern has no match, else the entries
\* of the matches whose numbers float() accepts
RangeList(text, good, bad, entry) ==
  IF text \cap (good \cup bad) = {} THEN None
  ELSE Some(IF text \cap good # {} THEN <<entry>> ELSE <<>>)

\* the confidence and the source given to a dict that is not empty
GuidanceConfidence(revenue_range, margin_range, eps_range) ==
  IF revenue_range.some \/ margin_range.some \/ eps_range.some
  THEN <<"high", "structured_guidance">>
  ELSE <<"low", "period_mentions_only">>

GuidanceDict(revenue_range, margin_range, eps_range, periods, guidance_values, confidence) ==
  [revenue_range |-> revenue_range, margin_range |-> margin_range, eps_range |-> eps_range,
   periods |-> periods, guidance_values |-> guidance_values,
   confidence |-> IF confidence = <<>> THEN None ELSE Some(confidence[1]),
   source |-> IF confidence = <<>> THEN None ELSE Some(confidence[2])]

\* what a call of extract_guidance_data does: it raises, or returns a dict
guidance_data(text) ==
  LET revenue_range == RangeList(text, {G_Revenue}, {}, "5.0 to 5.2 billion")
      margin_range == RangeList(text, {G_Margin}, {}, "10.8 to 10.9")
      eps_range == RangeList(text, {G_Eps}, {G_EpsFullStop}, "2.50 to 2.60")
      periods == IF G_Period \in text THEN Some(<<"2025">>) ELSE None
  IN  IF revenue_range.some \/ margin_range.some \/ eps_range.some \/ periods.some
      THEN [raised |-> FALSE,
            dict |-> GuidanceDict(revenue_range, margin_range, eps_range, periods, None,
                                  GuidanceConfidence(revenue_range, margin_range, eps_range))]
      ELSE IF G_FallbackBad \in text
      THEN [raised |-> TRUE, dict |-> GuidanceDict(None, None, None, None, None, <<>>)]
      ELSE IF G_Fallback \in text
      THEN [raised |-> FALSE,
            dict |-> GuidanceDict(None, None, None, None, Some(<<5>>),
                                  <<"very_low", "unstructured_mentions">>)]
      ELSE [raised |-> FALSE, dict |-> GuidanceDict(None, None, None, None, None, <<>>)]

\* a call of extract_guidance_data
ExtractGuidance ==
  /\ extractor.pc = "ready"
  /\ extractor' = [extractor EXCEPT !.pc = "done",
                                    !.result = Some(guidance_data(extractor.input))]

(***************************************************************************)
(* The validation of extract_board_nominees.  Its input is the sequence of *)
(* the names that the heuristics capture, in the order of the heuristics   *)
(* (the table's after its suffix is removed); a name is a string.          *)
(***************************************************************************)
STOPWORDS ==
  { <<"c","o","m","m","i","t","t","e","e">>, <<"b","o","a","r","d">>,
    <<"d","i","r","e","c","t","o","r">>, <<"n","o","m","i","n","e","e">>,
    <<"o","c","c","u","p","a","t","i","o","n">>, <<"p","r","i","n","c","i","p","a","l">>,
    <<"r","e","t","i","r","e","d">>, <<"m","a","n","a","g","i","n","g">>,
    <<"e","l","e","c","t","i","o","n">>, <<"p","r","o","p","o","s","a","l">>,
    <<"c","l","a","s","s">>, <<"t","e","r","m">>, <<"a","g","e">>,
    <<"s","i","n","c","e">>, <<"c","u","r","r","e","n","t">>,
    <<"f","o","r","m","e","r">>, <<"i","n","d","e","p","e","n","d","e","n","t">>,
    <<"n","o","n">>, <<"e","x","e","c","u","t","i","v","e">>,
    <<"m","e","m","b","e","r">>, <<"c","h","a","i","r","m","a","n">>,
    <<"p","r","e","s","i","d","e","n","t">>, <<"o","f","f","i","c","e","r">>,
    <<"t","a","b","l","e">>, <<"f","o","l","l","o","w","i","n","g">>,
    <<"i","n","f","o","r","m","a","t","i","o","n">>,
    <<"e","x","p","e","r","i","e","n","c","e">>,
    <<"q","u","a","l","i","f","i","c","a","t","i","o","n","s">>,
    <<"s","k","i","l","l","s">>, <<"c","o","m","p","a","n","y">>,
    <<"b","o","a","r","d"," ","o","f">> }

\* any(stop in name.lower() for stop in STOPWORDS), and a mutant that
\* compares the words of the name
ContainsStopwordToken(name) ==
  \E stop \in STOPWORDS : \E i \in 1..Len(name) :
    /\ HasAt(StrLower(name), i, stop)
    /\ i = 1 \/ IsSpaceChar(name[i - 1])
    /\ i + Len(stop) > Len(name) \/ IsSpaceChar(name[i + Len(stop)])

ContainsStopword(name) == \E stop \in STOPWORDS : Has(StrLower(name), stop)

\* name.split(): the places where the words of a name start
WordStarts(name) ==
  { i \in 1..Len(name) : ~IsSpaceChar(name[i]) /\ (i = 1 \/ IsSpaceChar(name[i - 1])) }

\* the length of the word that starts at place i
WordLen(name, i) ==
  Min({ k \in 1..(Len(name) - i + 1) : i + k > Len(name) \/ IsSpaceChar(name[i + k]) })

\* the names that are no names
NonNames ==
  { <<"T","h","e"," ","B","o","a","r","d">>, <<"B","o","a","r","d"," ","O","f">>,
    <<"O","u","r"," ","B","o","a","r","d">>, <<"T","h","e"," ","C","o","m","p","a","n","y">> }

\* the validation checks of the loop over nominees
ValidNominee(name) ==
  /\ Cardinality(WordStarts(name)) >= 2
  /\ Cardinality(WordStarts(name)) <= 4
  /\ ~ContainsStopword(name)
  /\ \A i \in WordStarts(name) : WordLen(name, i) > 1 => name[i] \in Range(UpperLetters)
  /\ name \notin NonNames

\* the names of a sequence, each at its first place
RECURSIVE Distinct(_)
Distinct(x) ==
  IF x = <<>> THEN <<>>
  ELSE LET rest == Distinct(SubSeq(x, 1, Len(x) - 1))
       IN  IF x[Len(x)] \in Range(rest) THEN rest ELSE Append(rest, x[Len(x)])

\* the number of names returned at most
NomineeCap == 15

\* the list returned for the names captured
board_nominees(captures) ==
  LET KeptByHeuristic(name) == ~ContainsStopword(name)
      nominees == SelectSeq(captures, KeptByHeuristic)
      cleaned == Distinct(SelectSeq(nominees, ValidNominee))
  IN  Take(cleaned, NomineeCap)

N_Carley == <<"T","h","o","m","a","s"," ","J","."," ","C","a","r","l","e","y">>

N_Meeker == <<"A","n","t","h","o","n","y"," ","M","e","e","k","e","r">>

N_Committee == <<"N","o","m","i","n","a","t","i","n","g"," ","C","o","m","m","i","t","t","e","e">>

N_Occupation == <<"P","r","i","n","c","i","p","a","l"," ","O","c","c","u","p","a","t","i","o","n">>

\* no word of the name is a stopword, and "age" is in "page"
N_Page == <<"L","a","r","r","y"," ","P","a","g","e">>

\* the greatest number of names of the roster in a text
MaxRoster == 16

\* the i-th name of a roster of directors: "Ao Lee", "Bo Lee", ...
RosterName(i) == <<UpperLetters[i], "o", " ", "L", "e", "e">>

Roster(n) == [i \in 1..n |-> RosterName(i)]

\* nothing, or one name the heuristics captured around the roster
AroundRoster ==
  { <<>>, <<N_Carley>>, <<N_Meeker>>, <<N_Committee>>, <<N_Occupation>>, <<N_Page>>,
    <<RosterName(1)>> }

CapturedNames ==
  { before \o Roster(n) \o after :
      before \in AroundRoster, n \in 0..MaxRoster, after \in AroundRoster }

\* a call of extract_board_nominees
ExtractNominees ==
  /\ extractor.pc = "ready"
  /\ extractor' = [extractor EXCEPT !.pc = "done",
                                    !.result = Some(board_nominees(extractor.input))]

(***************************************************************************)
(* The body of the loop of sec_search, on a located filing and its texts.  *)
(***************************************************************************)
ProcessFormPool == {F_8K, F_10K, F_DEF14A, F_DEFA14A}

RevenueRange == "revenue guidance of $5.0 billion to $5.2 billion"

\* "Revenue between $5.0 and $5.2 billion is our outlook.": the revenue range
\* lies before the word that opens the guidance section
RangeBeforeOutlook == TextOf({RevenueRange}, {"guidance"}, 100)

\* a page of 20000 characters that opens with the heading of an item
LongItem == TextOf({"Item 1.01", "Item 1. Business", "PROPOSAL 1"},
                   {"Item 1.01", "Item 1. Business", "PROPOSAL 1"}, 20000)

\* the nominee table under the heading of the election of directors
NomineeTable == Text({"ELECTION OF DIRECTORS", "Anthony Meeker   73"})

\* the texts of a primary document, none of them empty
FilingTextPool ==
  { Boilerplate, Revenues, Text({"guidance"}), Text({RevenueRange}), RangeBeforeOutlook,
    Text({"guidance 1.2.3%"}), LongItem, NomineeTable, Text({"Anthony Meeker   73"}) }

\* a press release of 28000 characters
LongPressRelease == TextOf({RevenueRange}, {RevenueRange}, 28000)

\* what the fetch returns for the exhibit
ExhibitTextPool == { None, Some(EmptyText), Some(PressRelease), Some(LongPressRelease) }

\* one pass of the loop body
Process ==
  /\ process.pc = "ready"
  /\ LET r == ProcessFiling(process.filing, AppleCik, process.filing_text, process.exhibit_text)
     IN  process' = [process EXCEPT !.pc = "done", !.raised = r.raised, !.entry = r.entry]

vars == <<fetchVars, searchVars, cleanVars, resolveVars, locateVars, processVars, extractVars>>

(***************************************************************************)
(* The specifications.                                                     *)
(***************************************************************************)
\* one call of sec_search
Init ==
  /\ ExtractIdle
  /\ LocateIdle
  /\ ProcessIdle
  /\ disk \in DiskPool
  /\ archive_file = None
  /\ FetchIdle
  /\ SearchIdle
  /\ CleanIdle
  /\ ResolveIdle

Next ==
  \/ SearchCall /\ UNCHANGED <<fetch, f_calls, cleanVars, resolveVars, locate, process, extractor>>
  \/ SearchIndex /\ UNCHANGED <<fetch, f_calls, cleanVars, resolveVars, locate, process, extractor>>
  \/ SearchFiling /\ UNCHANGED <<fetch, f_calls, cleanVars, resolveVars, locate, process, extractor>>

Spec == Init /\ [][Next]_vars

\* calls of fetch_filing_and_exhibit_html one after another
InitFetch ==
  /\ ExtractIdle
  /\ LocateIdle
  /\ ProcessIdle
  /\ disk = NoFiles
  /\ archive_file = None
  /\ FetchIdle
  /\ SearchIdle
  /\ CleanIdle
  /\ ResolveIdle

NextFetch ==
  \/ FetchCall /\ UNCHANGED <<searchVars, cleanVars, resolveVars, locate, process, extractor>>
  \/ FetchStep /\ UNCHANGED <<searchVars, cleanVars, resolveVars, locate, process, extractor>>

SpecFetch == InitFetch /\ [][NextFetch]_vars

\* clean_company_name on a name and on what edits make of it
InitClean ==
  /\ ExtractIdle
  /\ LocateIdle
  /\ ProcessIdle
  /\ disk = NoFiles
  /\ archive_file = None
  /\ FetchIdle
  /\ SearchIdle
  /\ ResolveIdle
  /\ name1 \in BaseNames
  /\ name2 = name1
  /\ edits = {}
  /\ keys = None

NextClean ==
  \/ EditCase /\ UNCHANGED <<fetchVars, searchVars, resolveVars, locate, process, extractor>>
  \/ EditThe /\ UNCHANGED <<fetchVars, searchVars, resolveVars, locate, process, extractor>>
  \/ EditSuffix /\ UNCHANGED <<fetchVars, searchVars, resolveVars, locate, process, extractor>>
  \/ EditPunct /\ UNCHANGED <<fetchVars, searchVars, resolveVars, locate, process, extractor>>

SpecClean == InitClean /\ [][NextClean]_vars

\* get_cik_from_ticker_or_name for the rows of a registry
InitResolve ==
  /\ ExtractIdle
  /\ LocateIdle
  /\ ProcessIdle
  /\ disk = NoFiles
  /\ archive_file = None
  /\ FetchIdle
  /\ SearchIdle
  /\ CleanIdle
  /\ r_rows \in Registries
  /\ r_row = 0
  /\ r_how = "none"
  /\ r_ret = <<None, None>>

NextResolve ==
  \/ ResolveByTicker /\ UNCHANGED <<fetchVars, searchVars, cleanVars, locate, process, extractor>>
  \/ ResolveByName /\ UNCHANGED <<fetchVars, searchVars, cleanVars, locate, process, extractor>>
  \/ ResolveByBoth /\ UNCHANGED <<fetchVars, searchVars, cleanVars, locate, process, extractor>>

SpecResolve == InitResolve /\ [][NextResolve]_vars

\* the filter of the filings index on an index and bounds
InitLocate ==
  /\ ExtractIdle
  /\ disk = NoFiles
  /\ archive_file = None
  /\ FetchIdle
  /\ SearchIdle
  /\ CleanIdle
  /\ ResolveIdle
  /\ ProcessIdle
  /\ locate \in { [pc |-> "idle", rows |-> rows, args |-> args, raw |-> <<>>] :
                    rows \in LocateIndexPool, args \in LocateArgPool }

NextLocate ==
  \/ Locate /\ UNCHANGED <<fetchVars, searchVars, cleanVars, resolveVars, process, extractor>>

SpecLocate == InitLocate /\ [][NextLocate]_vars

\* the body of the loop of sec_search on a located filing and its texts
InitProcess ==
  /\ ExtractIdle
  /\ disk = NoFiles
  /\ archive_file = None
  /\ FetchIdle
  /\ SearchIdle
  /\ CleanIdle
  /\ ResolveIdle
  /\ LocateIdle
  /\ process \in { [pc |-> "ready",
                     filing |-> IndexRow(form, D_2024_02_20, Accession1, Document1),
                     filing_text |-> filing_text, exhibit_text |-> exhibit_text,
                     raised |-> FALSE, entry |-> None] :
                      form \in ProcessFormPool, filing_text \in FilingTextPool,
                      exhibit_text \in ExhibitTextPool }

NextProcess ==
  \/ Process /\ UNCHANGED <<fetchVars, searchVars, cleanVars, resolveVars, locate, extractor>>

SpecProcess == InitProcess /\ [][NextProcess]_vars

\* the other groups of variables are idle
OthersIdle ==
  /\ disk = NoFiles
  /\ archive_file = None
  /\ FetchIdle
  /\ SearchIdle
  /\ CleanIdle
  /\ ResolveIdle
  /\ LocateIdle
  /\ ProcessIdle

\* extract_pretax_margin_data on a text
InitMargin ==
  /\ OthersIdle
  /\ extractor \in { [pc |-> "ready", input |-> text, result |-> None] : text \in MarginTexts }

NextMargin ==
  \/ ExtractMargin
       /\ UNCHANGED <<fetchVars, searchVars, cleanVars, resolveVars, locateVars, processVars>>

SpecMargin == InitMargin /\ [][NextMargin]_vars

\* the ARPPU part of extract_financial_data on the values captured in a text
InitArppu ==
  /\ OthersIdle
  /\ extractor \in { [pc |-> "ready", input |-> captures, result |-> None] :
                       captures \in CaptureSeqs }

NextArppu ==
  \/ ExtractArppu
       /\ UNCHANGED <<fetchVars, searchVars, cleanVars, resolveVars, locateVars, processVars>>

SpecArppu == InitArppu /\ [][NextArppu]_vars

\* extract_guidance_data on a text
InitGuidance ==
  /\ OthersIdle
  /\ extractor \in { [pc |-> "ready", input |-> text, result |-> None] :
                       text \in SUBSET GuidanceSentences }

NextGuidance ==
  \/ ExtractGuidance
       /\ UNCHANGED <<fetchVars, searchVars, cleanVars, resolveVars, locateVars, processVars>>

SpecGuidance == InitGuidance /\ [][NextGuidance]_vars

\* extract_board_nominees on the names captured in a text
InitNominees ==
  /\ OthersIdle
  /\ extractor \in { [pc |-> "ready", input |-> captures, result |-> None] :
                       captures \in CapturedNames }

NextNominees ==
  \/ ExtractNominees
       /\ UNCHANGED <<fetchVars, searchVars, cleanVars, resolveVars, locateVars, processVars>>

SpecNominees == InitNominees /\ [][NextNominees]_vars

(***************************************************************************)
(* Properties of fetch_filing_and_exhibit_html.                            *)
(***************************************************************************)
\* the step sends an HTTP request
IssuesRequest == Len(netlog') > Len(netlog)

\* the step is the start of a call
StartsCall == f_calls' = f_calls + 1

\* the cache file of the filing of the current call exists
FilingCached == CacheOn(fetch.args) /\ FilingFile(fetch.args.cache_filename.val) \in DOMAIN disk

ExhibitCached == CacheOn(fetch.args) /\ ExhibitFile(fetch.args.cache_filename.val) \in DOMAIN disk

\* C3, as stated: with the disk cache enabled, a call made while the cache
\* file of the filing exists sends no HTTP request (the files do not change
\* between the start of a call and its requests).
C3_CachedFileBlocksRequests == [][IssuesRequest => ~FilingCached]_vars

\* C3, amended: with the disk cache enabled, a call made while the cache file
\* of the filing exists, is read without error and holds a non-empty text
\* sends no HTTP request, whether the exhibit cache file exists or not.
C3_ReadableNonEmptyCacheBlocksRequests ==
  [][(IssuesRequest /\ FilingCached)
       => (~fetch.obs.read_filing_ok \/ ~NonEmpty(disk[FilingFile(fetch.args.cache_filename.val)]))]_vars

\* a second call was answered from the filing cache alone, the exhibit cache file missing
C3_Witness ==
  /\ f_calls >= 2
  /\ fetch.pc = "done"
  /\ FilingCached
  /\ ~ExhibitCached
  /\ netlog = <<>>
  /\ ~fetch.obs.got_200
  /\ NonEmpty(fetch.ret.val.filing)
  /\ fetch.ret.val.filing = disk[FilingFile(fetch.args.cache_filename.val)]
  /\ fetch.ret.val.exhibit = None

\* the call that ended before the step downloaded the primary document with status 200
Downloaded == fetch.pc = "done" /\ fetch.obs.got_200 /\ CacheOn(fetch.args)

\* the step starts a call with the arguments of the call before it
SameCallAgain == StartsCall /\ fetch'.args = fetch.args

\* the call started by the step returns from its look into the cache
AnsweredFromCache == fetch'.pc = "done" /\ ~IssuesRequest

\* C4, as stated: with the disk cache enabled, after a call that downloaded
\* the primary document with status 200, a second call with the same arguments
\* returns the same filing text and the same exhibit text and sends no request.
C4_RoundTrip ==
  [][(Downloaded /\ SameCallAgain) => (AnsweredFromCache /\ fetch'.ret = fetch.ret)]_vars

\* C4, amended: with the disk cache enabled, after a call that downloaded the
\* primary document with status 200, whose cleaned text is not empty and whose
\* cache writes succeeded, a second call with the same arguments whose cache
\* reads succeed returns the same filing text and sends no request; it returns
\* the same exhibit text when the first call returned a non-empty exhibit text.
C4_RoundTripWhenCacheWorked ==
  [][(/\ Downloaded
      /\ NonEmpty(fetch.ret.val.filing)
      /\ fetch.obs.write_filing = "ok"
      /\ fetch.obs.write_exhibit # "denied"
      /\ SameCallAgain
      /\ fetch'.obs.read_filing_ok
      /\ fetch'.obs.read_exhibit_ok)
       => (/\ AnsweredFromCache
           /\ fetch'.ret.val.filing = fetch.ret.val.filing
           /\ (TruthyText(fetch.ret.val.exhibit) => fetch'.ret.val.exhibit = fetch.ret.val.exhibit))]_vars

\* a second call returned a filing text and an exhibit text from the cache
C4_Witness ==
  /\ f_calls = 2
  /\ fetch.pc = "done"
  /\ FilingCached
  /\ ExhibitCached
  /\ netlog = <<>>
  /\ ~fetch.obs.got_200
  /\ NonEmpty(fetch.ret.val.filing)
  /\ TruthyText(fetch.ret.val.exhibit)
  /\ fetch.ret.val.exhibit.val = disk[ExhibitFile(fetch.args.cache_filename.val)]

\* the wait that answer i of the call asks for: the seconds of Retry-After, 10 without the header
AskedWait(answer) ==
  IF ~answer.retry_after.some THEN Some(RetryAfterDefault)
  ELSE IF AllDigits(answer.retry_after.val) THEN Some(DigitsToNat(answer.retry_after.val))
  ELSE None

\* C5: a call sends at most 3 requests for the primary document; each answer
\* 429 is followed by a wait (of the seconds of Retry-After, 10 without the
\* header) and, when fewer than 3 requests were sent, by a retry; a call whose
\* every attempt was answered 429 returns the empty text and no exhibit.
C5_RetryOn429 ==
  LET answers == fetch.obs.answers
  IN  /\ Len(answers) <= MaxRetries
      /\ Len(netlog) <= MaxRetries + 1
      /\ \A i \in 1..Len(answers) :
           answers[i].kind = "429" =>
             /\ Len(fetch.waits) >= i
             /\ AskedWait(answers[i]).some => fetch.waits[i] = AskedWait(answers[i]).val
             /\ (i < MaxRetries /\ i = Len(answers)) => fetch.pc = "request"
      /\ (fetch.pc = "done" /\ Len(answers) = MaxRetries
          /\ \A i \in 1..Len(answers) : answers[i].kind = "429")
           => fetch.ret = Some([filing |-> EmptyText, exhibit |-> None])

\* a call whose three attempts were answered 429, with Retry-After absent,
\* 2 and absent, waited 10, 2 and 10 seconds and returned the empty text
C5_Witness ==
  /\ fetch.pc = "done"
  /\ Len(fetch.obs.answers) = MaxRetries
  /\ \A i \in 1..MaxRetries : fetch.obs.answers[i].kind = "429"
  /\ fetch.waits = <<RetryAfterDefault, 2, RetryAfterDefault>>
  /\ fetch.ret = Some([filing |-> EmptyText, exhibit |-> None])
(***************************************************************************)
(* Properties of sec_search.                                               *)
(***************************************************************************)
\* the entry holds a matched section, an extracted fact, guidance or a nominee
HasSignal(entry) ==
  \/ entry.sections # {}
  \/ entry.facts # {}
  \/ entry.guidance_data # {}
  \/ entry.board_nominees # {}

\* C1: a filing whose text was fetched but in which no section is matched, no
\* fact is found, no guidance and no board nominee is extracted is not
\* appended to the timeline: every entry of the timeline holds a signal.
C1_NoSignalNotAppended == \A i \in 1..Len(s_timeline) : HasSignal(s_timeline[i])

\* C2: for every combination of arguments and every outcome of the network,
\* the cache and the extraction, sec_search returns a dict: no exception
\* leaves it.
C2_AlwaysReturnsDict == s_pc # "raised"

\* the fetch of the filing at place i of the located filings returned the empty text
EmptyFetch(i) == s_fetched[i].some /\ ~NonEmpty(s_fetched[i].val.filing)

\* C6: after a fetch that returned the empty text, the timeline has no entry
\* for that filing, sec_search is not aborted, and when it has returned, every
\* located filing was fetched and the entries made are in the returned timeline.
C6_EmptyFetchSkipsOneFiling ==
  \A i \in 1..Len(s_fetched) :
    EmptyFetch(i) =>
      /\ \A k \in 1..Len(s_timeline) : s_timeline[k].accession # s_raw[i].accession_number
      /\ s_pc # "raised"
      /\ s_pc = "done" =>
           /\ Len(s_fetched) = Len(s_raw)
           /\ s_ret = Some(Result(s_cik.val, s_ticker, s_timeline))

\* sec_search has ended without a registry id
EndedUnresolved == s_pc \in {"done", "raised"} /\ ~Truthy(s_cik)

\* C7: when no registry id is resolved, sec_search returns the company-not-found
\* error and has sent no request to the filings index or for a document; called
\* without company_name, ticker_symbol and cik, it has sent no request at all.
C7_NotFoundBeforeIndex ==
  EndedUnresolved =>
    /\ s_ret = Some(CompanyNotFound)
    /\ \A i \in 1..Len(netlog) : netlog[i].to \in {"tickers", "archive"}
    /\ (~Truthy(s_args.company_name) /\ ~Truthy(s_args.ticker_symbol) /\ ~Truthy(s_args.cik))
         => netlog = <<>>

\* a string of exactly 10 decimal digits
TenDigits(s) == Len(s) = CikWidth /\ AllDigits(s)

\* C8: the registry id that sec_search goes on with, the cik in every URL it
\* requests and the cik of the returned result are strings of exactly 10
\* decimal digits.
C8_CikIsTenDigits ==
  /\ (s_pc # "idle" /\ Truthy(s_cik)) => TenDigits(s_cik.val)
  /\ \A i \in 1..Len(netlog) : netlog[i].cik.some => TenDigits(netlog[i].cik.val)
  /\ (s_ret.some /\ s_ret.val.kind = "result") => TenDigits(s_ret.val.cik)

(***************************************************************************)
(* Properties of clean_company_name and of get_cik_from_ticker_or_name.    *)
(***************************************************************************)
\* C9: two company names that differ only by a legal-entity suffix, by
\* punctuation, by letter case or by a leading "The" have the same key.
C9_SameKey == keys.some => keys.val[1] = keys.val[2]

\* the registry id of a row with a valid id: its number, zero-padded to 10 digits
RowId(row) == ZFill(IntToStr(PyInt(row[1]).val), CikWidth)

\* C10: called with only the ticker of a row with a valid id, or with only
\* its legal name, get_cik_from_ticker_or_name returns the registry id of the row.
C10_RowResolvesToItsId ==
  r_how \in {"ticker", "name"} => r_ret[1] = Some(RowId(r_rows[r_row]))

\* the ticker of a registry row as the resolver compares it
RowTicker(row) == StrUpper(StrStrip(PyStr(row[3])))

\* C16: called with the ticker of a row with a valid id, whatever company_name
\* is supplied with it, get_cik_from_ticker_or_name returns the id and the
\* ticker of a row with a valid id whose ticker is the supplied ticker: a name
\* match is not used while a row matches the ticker.
C16_TickerMatchWins ==
  r_how \in {"ticker", "both"} =>
    \E i \in 1..Len(r_rows) :
      /\ ValidRow(r_rows[i])
      /\ RowTicker(r_rows[i]) = RowTicker(r_rows[r_row])
      /\ r_ret = <<Some(RowId(r_rows[i])), Some(RowTicker(r_rows[i]))>>

\* called with the ticker of one row and the name of another, the resolver
\* returned the id of the row of the ticker
C16_Witness ==
  /\ r_how = "both"
  /\ r_ret[1] = Some(RowId(r_rows[r_row]))

(***************************************************************************)
(* Properties of fetch_filing_and_exhibit_html: the cache files, waits.    *)
(***************************************************************************)
\* the step ends a download and writes the cache file of the filing
WritesFiling == fetch.pc \in {"request", "exhibit"} /\ fetch'.obs.write_filing = "ok"

\* the step ends a download and writes the cache file of the exhibit
WritesExhibit == fetch.pc \in {"request", "exhibit"} /\ fetch'.obs.write_exhibit = "ok"

\* C14: over calls made one after another, once a cache file exists no later
\* call writes it again and its content never changes.
C14_WriteOnce ==
  [][/\ \A file \in DOMAIN disk : file \in DOMAIN disk' /\ disk'[file] = disk[file]
     /\ WritesFiling => ~FilingCached
     /\ WritesExhibit => ~ExhibitCached]_vars

\* a later call with the cache enabled found both cache files and wrote neither
C14_Witness ==
  /\ f_calls >= 2
  /\ fetch.pc = "done"
  /\ FilingCached
  /\ ExhibitCached
  /\ fetch.obs.write_filing = "none"
  /\ fetch.obs.write_exhibit = "none"
  /\ fetch.obs.requests = <<>>

\* every answer of the call so far was 429 without a Retry-After header
Only429NoHeader ==
  \A i \in 1..Len(fetch.obs.answers) :
    fetch.obs.answers[i].kind = "429" /\ ~fetch.obs.answers[i].retry_after.some

\* C15: on repeated answers 429 without a Retry-After header, each wait is
\* longer than the wait before it, by the same factor each time.
C15_ExponentialBackoff ==
  Only429NoHeader =>
    \A i \in 1..(Len(fetch.waits) - 1) :
      /\ fetch.waits[i + 1] > fetch.waits[i]
      /\ (i + 2 <= Len(fetch.waits)) =>
           fetch.waits[i + 1] * fetch.waits[i + 1] = fetch.waits[i] * fetch.waits[i + 2]

\* a call whose three attempts were answered 429 without the header has waited
\* three times and ended
C15_Witness ==
  /\ fetch.pc = "done"
  /\ Only429NoHeader
  /\ Len(fetch.obs.answers) = MaxRetries
  /\ Len(fetch.waits) = MaxRetries

(***************************************************************************)
(* Properties of the filter of the filings index.                          *)
(***************************************************************************)
\* the form string contains the form type, letters compared without case
ContainsNoCase(form, ft) ==
  \E i \in 0..(Len(form) - Len(ft)) :
    \A k \in 1..Len(ft) : LowerChar(form[i + k]) = LowerChar(ft[k])

\* a parsed date as a number that grows with the calendar
DayNumber(date) == date[1] * 372 + (date[2] - 1) * 31 + date[3]

\* the filing date is a date of the closed interval of the bounds given
WithinBounds(filing_date, start_date, end_date) ==
  /\ ParseDate(filing_date).some
  /\ Truthy(start_date) =>
       DayNumber(ParseDate(start_date.val).val) <= DayNumber(ParseDate(filing_date).val)
  /\ Truthy(end_date) =>
       DayNumber(ParseDate(filing_date).val) <= DayNumber(ParseDate(end_date.val).val)

\* what C11 asks of a row for it to be a located filing
Wanted(row, args) ==
  /\ \E ft \in args.form_types : ContainsNoCase(row.form, ft)
  /\ (Truthy(args.start_date) \/ Truthy(args.end_date)) =>
       WithinBounds(row.filing_date, args.start_date, args.end_date)

\* C11: a row of the index is a located filing exactly when its form contains,
\* without regard to case, a requested form type and, when bounds are given,
\* its filing date lies in [start_date, end_date], both ends included; the
\* located filings keep the order of the index.
C11_FilterIsExact ==
  locate.pc = "done" =>
    locate.raw = SelectSeq(locate.rows, LAMBDA row : Wanted(row, locate.args))

\* a filing dated on the end bound is kept and one dated the day after is dropped
C11_Witness ==
  /\ locate.pc = "done"
  /\ locate.args.start_date = Some(D_2024_02_01)
  /\ locate.args.end_date = Some(D_2024_02_20)
  /\ Len(locate.rows) = 2
  /\ locate.rows[1].filing_date = D_2024_02_21
  /\ locate.rows[2].filing_date = D_2024_02_20
  /\ locate.raw = <<locate.rows[2]>>

(***************************************************************************)
(* Properties of sec_search: the validation of the date bounds.            *)
(***************************************************************************)
\* C12: a call of sec_search with a start_date or end_date that is not a valid
\* YYYY-MM-DD date returns the invalid-date-format error and processes no filing.
C12_InvalidDateIsReported ==
  (s_pc \in {"done", "raised"} /\ InvalidDateBounds(s_args)) =>
    /\ s_pc = "done"
    /\ s_ret = Some(InvalidDate)
    /\ s_fetched = <<>>

\* a call with a malformed start_date ended
C12_Witness ==
  /\ s_pc = "done"
  /\ InvalidDateBounds(s_args)
  /\ s_ret = Some(InvalidDate)

\* C17: a row of the filings index whose filingDate is not a valid YYYY-MM-DD
\* date never becomes a located filing and never produces a timeline entry,
\* with or without start_date and end_date.
C17_MalformedDateSkipped ==
  /\ \A i \in 1..Len(s_raw) : ParseDate(s_raw[i].filing_date).some
  /\ \A k \in 1..Len(s_timeline) : ParseDate(s_timeline[k].date).some

(***************************************************************************)
(* Properties of sec_search: the order of the requests and of the entries. *)
(***************************************************************************)
\* the requests for filing documents, in the order they were sent
DocRequests == SelectSeq(netlog, LAMBDA u : u.to = "doc")

\* the places in the located filings of the filing a document request is for
FilingOf(u) ==
  { i \in 1..Len(s_raw) :
      u = DocUrl(s_cik.val, s_raw[i].accession_number, s_raw[i].primary_document) }

\* the entry is the entry of the located filing
EntryOf(entry, filing) ==
  /\ entry.accession = filing.accession_number
  /\ entry.date = filing.filing_date
  /\ entry.form = filing.form

MaterialEvent(form) == ContainsNoCase(form, <<"8","-","K">>)

\* the pass of the loop body made an entry
MadeEntry == process.pc = "done" /\ process.entry.some

\* the combined text of the pass: the exhibit text before the filing text when
\* an exhibit was fetched, else the filing text
CombinedText ==
  IF TruthyText(process.exhibit_text)
  THEN Concat(process.exhibit_text.val, process.filing_text)
  ELSE process.filing_text

\* the result of the guidance extractor on the guidance section of the filing
OnGuidanceSection ==
  extract_guidance_data(SectionText(process.filing_text, "guidance_section")).keys

\* C18, as stated: the guidance extractor runs only for forms that contain
\* "8-K"; when the section map of such a filing has a guidance_section, the
\* guidance data of the entry is the result of the extractor on that section
\* text, the combined text being used only when there is no guidance_section.
C18_GuidanceFromSection ==
  MadeEntry =>
    /\ ~MaterialEvent(process.filing.form) => process.entry.val.guidance_data = {}
    /\ (MaterialEvent(process.filing.form)
         /\ "guidance_section" \in process.entry.val.sections)
          => process.entry.val.guidance_data = OnGuidanceSection

\* C18, amended: the guidance extractor runs only for forms that contain
\* "8-K"; when the section map has a guidance_section and the extractor finds
\* something in that section text, the guidance data is that result; when it
\* finds nothing there, or there is no guidance_section, the guidance data is
\* the result of the extractor on the combined text.
C18_GuidanceFromSectionElseCombined ==
  MadeEntry =>
    /\ ~MaterialEvent(process.filing.form) => process.entry.val.guidance_data = {}
    /\ MaterialEvent(process.filing.form) =>
         process.entry.val.guidance_data =
           IF "guidance_section" \in process.entry.val.sections /\ OnGuidanceSection # {}
           THEN OnGuidanceSection
           ELSE extract_guidance_data(CombinedText).keys

\* an 8-K whose guidance section holds nothing for the extractor got its
\* guidance data from the combined text
C18_Witness ==
  /\ MadeEntry
  /\ MaterialEvent(process.filing.form)
  /\ "guidance_section" \in process.entry.val.sections
  /\ OnGuidanceSection = {}
  /\ process.entry.val.guidance_data # {}

\* the form is one for which extract_all_sections takes the proxy-statement table
ProxyStatement(form) ==
  /\ ~MaterialEvent(form)
  /\ \/ ContainsNoCase(form, <<"D","E","F"," ","1","4","A">>)
     \/ ContainsNoCase(form, <<"D","E","F","A","1","4","A">>)

\* C19: the board nominees of an entry are the result of the board-nominee
\* extractor on the raw filing text for the forms that take the
\* proxy-statement table (DEF 14A and DEFA14A); the extractor is not run for
\* a filing of another form.
C19_NomineesForProxyForms ==
  MadeEntry =>
    process.entry.val.board_nominees =
      IF ProxyStatement(process.filing.form)
      THEN extract_board_nominees(process.filing_text)
      ELSE {}

\* the entry of a DEF 14A filing holds the nominee of its table
C19_Witness ==
  /\ MadeEntry
  /\ ProxyStatement(process.filing.form)
  /\ process.entry.val.board_nominees = {"Anthony Meeker"}

\* C20: every section text in the sections map of a timeline entry has at
\* most 12000 characters, and the key of a pattern that does not match the
\* filing text is absent from the map.
C20_SectionsCapped ==
  MadeEntry =>
    /\ \A key \in process.entry.val.sections :
         process.entry.val.section_chars[key] <= SectionCap
    /\ \A q \in SectionPatterns(process.filing.form) :
         q[2] \notin process.filing_text.phrases => q[1] \notin process.entry.val.sections

\* the section of an item of a page of 20000 characters was stored cut at
\* 12000 characters
C20_Witness ==
  /\ MadeEntry
  /\ process.filing_text.chars > SectionCap
  /\ \E key \in process.entry.val.sections :
       key # "exhibit_99_1" /\ process.entry.val.section_chars[key] = SectionCap


(***************************************************************************)
(* Properties of extract_pretax_margin_data.                               *)
(***************************************************************************)
MarginReturned == extractor.pc = "done" /\ extractor.input \in MarginTexts

MarginDict == extractor.result.val

\* the number of the pattern of a source, 0 for the empty dict
PatternOf(result) ==
  CASE result.source = Some("tjx_style_above_below_plan") -> 1
    [] result.source = Some("explicit_difference") -> 2
    [] result.source = Some("simple_extraction") -> 3
    [] result.source = Some("quarterly_mentions") -> 4
    [] OTHER -> 0

\* the patterns that match a text
Matching(text) ==
  {n \in 1..4 : CASE n = 1 -> TjxMatches(text) # {}
                   [] n = 2 -> ExplicitMatches(text) # {}
                   [] n = 3 -> SimpleMatches(text) # {}
                   [] OTHER -> QuarterlyMatches(text) # {}}

\* C21: the result is that of the first pattern that matches, in the order
\* above/below plan, explicit difference, bare value, quarter-scoped value;
\* and when a difference d is found for the value a, "above" gives a beat
\* with the bound a - d, "below" a miss with the bound a + d, and
\* difference_bps is 100 * d (d hundredths of a point are d basis points).
C21_FirstPatternAndArithmetic ==
  MarginReturned =>
    /\ PatternOf(MarginDict) = (IF Matching(extractor.input) = {} THEN 0
                                 ELSE Min(Matching(extractor.input)))
    /\ MarginDict.difference_bps.some =>
         \E n \in 1..Len(extractor.input) :
           LET d == TokenDelta(extractor.input[n])
               a == MarginDict.actual_pct.val
           IN  /\ IsDelta(extractor.input[n])
               /\ MarginDict.difference_bps = Some(d)
               /\ \/ /\ MarginDict.beat_or_miss = Some("beat")
                     /\ \E j \in 1..Len(extractor.input) : extractor.input[j] = T_Above
                     /\ MarginDict.guidance_high_pct = Some(a - d)
                  \/ /\ MarginDict.beat_or_miss = Some("miss")
                     /\ \E j \in 1..Len(extractor.input) : extractor.input[j] = T_Below
                     /\ MarginDict.guidance_high_pct = Some(a + d)

\* 12.3%, up 0.3 percentage points, well above plan: beat, 30 bps, 12.0
C21_Witness ==
  /\ MarginReturned
  /\ extractor.input = <<T_Margin, T_Up30, T_Above, T_Plan>>
  /\ MarginDict.beat_or_miss = Some("beat")
  /\ MarginDict.difference_bps = Some(30)
  /\ MarginDict.guidance_high_pct = Some(1200)
  /\ MarginDict.confidence = Some("high")


C29_QuarterlyNeverReached ==
  MarginReturned =>
    /\ QuarterlyMatches(extractor.input) # {} => SimpleMatches(extractor.input) # {}
    /\ MarginDict.source # Some("quarterly_mentions")
    /\ ~MarginDict.quarterly_values.some

\* a quarter-scoped margin and nothing else: the result is the bare value's
C29_Witness ==
  /\ MarginReturned
  /\ extractor.input = <<T_Quarter, T_Margin>>
  /\ QuarterlyMatches(extractor.input) # {}
  /\ MarginDict.source = Some("simple_extraction")
  /\ MarginDict.margin_values = Some(<<1230>>)


(***************************************************************************)
(* Properties of the ARPPU part of extract_financial_data.                 *)
(***************************************************************************)
ArppuReturned == extractor.pc = "done" /\ extractor.input \in CaptureSeqs

ArppuDict == extractor.result.val

\* the values of the input inside the band from 5.00 to 25.00
AcceptedValues == {extractor.input[i] : i \in {j \in 1..Len(extractor.input) :
                                                 ArppuAccepted(extractor.input[j])}}

\* C23: only values from 5.00 to 25.00 are accepted; arppu_direct is the
\* list of all distinct accepted values in ascending order, arppu_overall
\* the one accepted value that occurs most often; when no value is
\* accepted neither key is present.
C23_AllDistinctAndMode ==
  ArppuReturned =>
    IF AcceptedValues = {}
    THEN ~ArppuDict.arppu_direct.some /\ ~ArppuDict.arppu_overall.some
    ELSE /\ ArppuDict.arppu_direct = Some(Sorted(AcceptedValues))
         /\ ArppuDict.arppu_overall.some
         /\ Len(ArppuDict.arppu_overall.val) = 1
         /\ ArppuDict.arppu_overall.val[1] \in AcceptedValues
         /\ \A v \in AcceptedValues :
              Occurrences(extractor.input, v)
                <= Occurrences(extractor.input, ArppuDict.arppu_overall.val[1])

\* 17.81 three times and 15.50 once: the mode 17.81, both values listed
C23_Witness ==
  /\ ArppuReturned
  /\ extractor.input = <<1781, 1550, 1781, 1781>>
  /\ ArppuDict.arppu_overall = Some(<<1781>>)
  /\ ArppuDict.arppu_direct = Some(<<1550, 1781>>)

\* C28: a reported arppu_overall value is an element of the arppu_direct
\* list of the same result.
C28_OverallAmongDirect ==
  ArppuReturned /\ ArppuDict.arppu_overall.some =>
    /\ ArppuDict.arppu_direct.some
    /\ ArppuDict.arppu_overall.val[1] \in Range(ArppuDict.arppu_direct.val)

\* five distinct accepted values, one of them twice: it is listed
C28_Witness ==
  /\ ArppuReturned
  /\ extractor.input = <<2500, 500, 1550, 2500, 1781, 2000>>
  /\ ArppuDict.arppu_overall = Some(<<2500>>)
  /\ ArppuDict.arppu_direct = Some(<<500, 1550, 1781, 2000, 2500>>)


(***************************************************************************)
(* Properties of extract_guidance_data.                                    *)
(***************************************************************************)
GuidanceReturned ==
  /\ extractor.pc = "done"
  /\ extractor.input \in SUBSET GuidanceSentences
  /\ ~extractor.result.val.raised

GuidanceOf == extractor.result.val.dict

\* the number of entries of a list of the dict
Entries(list) == IF list.some THEN Len(list.val) ELSE 0

\* the number of range entries extracted
RangeEntries ==
  Entries(GuidanceOf.revenue_range) + Entries(GuidanceOf.margin_range)
    + Entries(GuidanceOf.eps_range)

\* C24: the confidence is "high" exactly when at least one revenue, margin
\* or EPS range entry was extracted, "low" exactly when only period mentions
\* were found, "very_low" exactly when only the fallback matched; an empty
\* result has no confidence.
C24_ConfidenceByFinding ==
  GuidanceReturned =>
    /\ GuidanceOf.confidence = Some("high") <=> RangeEntries > 0
    /\ GuidanceOf.confidence = Some("low") <=>
         RangeEntries = 0 /\ GuidanceOf.periods.some
    /\ GuidanceOf.confidence = Some("very_low") <=>
         RangeEntries = 0 /\ ~GuidanceOf.periods.some /\ GuidanceOf.guidance_values.some
    /\ ~GuidanceOf.confidence.some <=>
         RangeEntries = 0 /\ ~GuidanceOf.periods.some /\ ~GuidanceOf.guidance_values.some

\* a revenue range and a period: one entry, confidence high
C24_Witness ==
  /\ GuidanceReturned
  /\ extractor.input = {G_Revenue, G_Period}
  /\ Entries(GuidanceOf.revenue_range) = 1
  /\ GuidanceOf.confidence = Some("high")


(***************************************************************************)
(* Properties of extract_board_nominees.                                   *)
(***************************************************************************)
NomineesReturned == extractor.pc = "done" /\ extractor.input \in CapturedNames

\* the words of a name, in lower case
WordsOf(name) ==
  { StrLower(SubSeq(name, i, i + WordLen(name, i) - 1)) : i \in WordStarts(name) }

\* a name of 2 to 4 words, each starting with a capital letter, none of
\* them a stopword, that is not a known non-name
AcceptedName(name) ==
  /\ Cardinality(WordStarts(name)) \in 2..4
  /\ \A i \in WordStarts(name) : name[i] \in Range(UpperLetters)
  /\ WordsOf(name) \cap STOPWORDS = {}
  /\ name \notin NonNames

\* C25: the list returned holds, without duplicates and in the order of
\* their first occurrence, the first 15 distinct captured names of 2 to 4
\* capitalised words of which none is a stopword and that are no known
\* non-names; so a captured name is returned exactly when it is one of them.
C25_ReturnedExactlyAccepted ==
  NomineesReturned =>
    extractor.result.val = Take(Distinct(SelectSeq(extractor.input, AcceptedName)), NomineeCap)

\* the two names of the table are returned, the two headers are not
C25_Witness ==
  /\ NomineesReturned
  /\ extractor.input = <<N_Carley>> \o Roster(0) \o <<N_Meeker>>
  /\ extractor.result.val = <<N_Carley, N_Meeker>>


(***************************************************************************)
(* Properties of the fetcher and its cache within sec_search.              *)
(***************************************************************************)
\* C26: an exhibit is requested, and an exhibit text put into the sections
\* of an entry, only for a filing of the material-event form, 8-K; for a
\* filing of another form only the primary document is requested.
C26_ExhibitOnlyForMaterialEvent ==
  /\ \A k \in 1..Len(netlog) :
       netlog[k].to = "exhibit" =>
         /\ k > 1
         /\ netlog[k - 1].to = "doc"
         /\ \A i \in FilingOf(netlog[k - 1]) : MaterialEvent(s_raw[i].form)
  /\ \A e \in 1..Len(s_timeline) :
       "exhibit_99_1" \in s_timeline[e].sections => MaterialEvent(s_timeline[e].form)

\* the page of an 8-K links an exhibit, which is requested after it
C26_Witness ==
  /\ s_pc = "done"
  /\ \E k \in 2..Len(netlog) :
       /\ netlog[k].to = "exhibit"
       /\ netlog[k - 1].to = "doc"
       /\ \A i \in FilingOf(netlog[k - 1]) : MaterialEvent(s_raw[i].form)


\* the call could not read the cache file of the filing, or could not write
\* a cache file
FilingCacheFailed ==
  \/ ~fetch.obs.read_filing_ok
  \/ fetch.obs.write_filing = "denied"
  \/ fetch.obs.write_exhibit = "denied"

\* the call requested an exhibit
ExhibitRequested == \E k \in 1..Len(fetch.obs.requests) : fetch.obs.requests[k].to = "exhibit"

\* C27: a failure to read or to write a cache file is bypassed: the call goes
\* on as on a cache miss and returns what it would return with the disk
\* cache disabled, where the document is requested and an exhibit text can
\* only come from an exhibit requested in the call.
C27_CacheFailureBypassed ==
  fetch.pc = "done" /\ FilingCacheFailed =>
    /\ Len(fetch.obs.requests) >= 1
    /\ fetch.ret.val.exhibit.some => ExhibitRequested

\* the cache file of the filing could not be read and the document was
\* downloaded
C27_Witness ==
  /\ fetch.pc = "done"
  /\ ~fetch.obs.read_filing_ok
  /\ fetch.obs.got_200
  /\ NonEmpty(fetch.ret.val.filing)

\* the step ends the call with an empty filing text, or with an exception
EndsEmpty ==
  /\ fetch.pc \in {"idle", "done", "raised", "request", "exhibit"}
  /\ fetch' # fetch
  /\ \/ fetch'.pc = "raised"
     \/ fetch'.pc = "done" /\ ~NonEmpty(fetch'.ret.val.filing)

\* C30: a call that returns an empty filing text creates and modifies no
\* cache file; and a call with use_disk_cache false reads and writes no
\* file: it leaves the files as they are and answers from no file.
C30_EmptyLeavesNoFile ==
  [][/\ EndsEmpty => disk' = disk
     /\ fetch' # fetch /\ ~fetch'.args.use_disk_cache =>
          /\ disk' = disk
          /\ fetch'.obs.write_filing = "none" /\ fetch'.obs.write_exhibit = "none"
          /\ fetch'.pc = "done" => Len(fetch'.obs.requests) >= 1]_vars

\* a call with the cache on was answered with a status other than 200 and
\* left no file
C30_Witness ==
  /\ fetch.pc = "done"
  /\ fetch.args.use_disk_cache
  /\ fetch.args.cache_filename.some
  /\ ~NonEmpty(fetch.ret.val.filing)
  /\ Len(fetch.obs.answers) = 1
  /\ fetch.obs.answers[1].kind = "status"
  /\ disk = NoFiles

=============================================================================
